---- MODULE Spec2Model ----
(***************************************************************************)
(* Mersenne-prime discovery pipeline of the MERSENNAA repository:          *)
(* Lucas-Lehmer tester, worker pool, resumable finder, candidate           *)
(* generators and the Prime95 results-log parser.                          *)
(***************************************************************************)
EXTENDS Integers, Sequences, FiniteSets, TLC

VARIABLES
    \* ---- Lucas-Lehmer tester (one call of lucas_lehmer_test) ----
    ll_variant,   \* which implementation runs: "revolutionary", "finder", "app"
    ll_p,         \* the exponent p
    ll_timeout,   \* the time budget, in clock ticks
    ll_pc,        \* "loop" while iterating, "returned" after the return/raise
    ll_i,         \* loop index i of  for i in range(p - 2)
    ll_s,         \* the residue s, an arbitrary-precision natural (limbs)
    ll_elapsed,   \* time.time() - start_time, in clock ticks
    ll_result,    \* what the function hands to its caller
    ll_path,      \* which return statement was taken: "p2", "completed", "timeout"
    ll_verdict,   \* what the caller (test_candidate, test_mersenne_number) reports
    \* ---- RevolutionaryMersenneDiscovery.run_discovery and its workers ----
    d_running,    \* self.running
    d_queue,      \* candidate_queue (FIFO)
    d_enqueued,   \* the candidates run_discovery put on the queue
    d_nworkers,   \* max_workers
    d_oracle,     \* exponents p for which a completed Lucas-Lehmer run ends with s = 0
    d_tested,     \* self.candidates_tested
    d_discoveries,\* self.discoveries (the exponents of the records, in append order)
    d_results,    \* self.result_queue
    m_pc,         \* position of the thread running run_discovery
    w_pc,         \* position of every worker thread
    w_cand,       \* candidate held by every worker
    w_tmp,        \* value of candidates_tested read by  self.candidates_tested += 1
    g_dequeued,   \* history: candidate -> workers that dequeued it
    g_done,       \* history: candidate -> number of test_candidate calls ended
    g_timedout,   \* history: candidates whose Lucas-Lehmer run hit the budget
    g_raised,     \* history: candidates on which test_candidate raised
    g_stop,       \* history: a stop signal was given
    \* ---- AdvancedMersennePrimeFinder and partial_search_result.json ----
    f_pc,         \* "off" (no process), "ready", "test", "bridge", "done", "raised"
    f_session,    \* number of processes started so far
    f_config,     \* self.config
    f_last,       \* self.state.last_exponent_tested
    f_file,       \* partial_search_result.json
    f_filtered,   \* filtered_candidates of the running run_search
    g_L,          \* history: last_exponent_tested when the running run_search began
    g_loaded,     \* history: the value _load_state read from the file, -1 if none
    g_handed_test,   \* history: candidates the run handed to test_candidates
    g_handed_bridge, \* history: candidates the run handed to integrate_with_prime95
    g_mem_max,    \* history: highest last_exponent_tested any process held
    g_file_max,   \* history: highest last_exponent_tested the file held
    \* ---- two calls of a candidate generator with identical arguments ----
    gen_pc,       \* position in the generator's code
    gen_start,    \* argument start
    gen_end,      \* argument end
    gen_count,    \* argument count
    gen_candidates,   \* the list candidates (all_candidates) of each call
    gen_attempts,     \* attempts (the backfill loop index) of each call
    gen_max_attempts, \* max_attempts (remaining) of each call
    gen_result,   \* the list each call returns
    gen_raised,   \* whether the call ended with an exception
    \* ---- the Prime95 results log and the calls of parse_mersenne_findings ----
    p_file,       \* results.txt: NoLog, or its bytes
    p_nlines,     \* number of lines Prime95 wrote
    p_calls,      \* number of calls made
    p_appended,   \* the log was appended to since the latest call
    p_prev,       \* since_bytes, confirmed_exponents and new_offset of the call before
    p_last,       \* since_bytes, confirmed_exponents and new_offset of the latest call
    \* ---- test_candidates parsing the log while Prime95 writes it ----
    c_pc,         \* "idle", or "reading" between os.path.getsize and the read
    c_size,       \* size, as os.path.getsize returned it
    c_offset,     \* self.state.prime95_results_offset
    c_calls,      \* number of calls made
    g_parsed,     \* history: the bytes (by position) some call has parsed
    g_reparsed,   \* history: the bytes parsed by more than one call
    g_returned,   \* history: number of confirmations the calls returned
    \* ---- the Prime95 work file (worktodo.txt) ----
    wt_file,      \* NoWork, or the lines of the file
    wt_backups,   \* the .bak copies: records [ts, contents]
    wt_clock,     \* time.strftime('%Y%m%d-%H%M%S'), counted in seconds
    wt_calls,     \* number of submit calls made
    g_submit,     \* history: the latest submit call, with the file before and after
    \* ---- EnhancedMersenneDiscovery ----
    e_pc,          \* "none", "loop", "check" or "returned": where run_sequential_discovery is
    e_runs,        \* calls of run_sequential_discovery made
    e_candidates,  \* candidates
    e_i,           \* passes of the loop completed
    e_tested,      \* candidates_tested
    e_discoveries, \* discoveries: records [exponent, verified_by_prime95]
    e_returned,    \* what run_sequential_discovery returned
    e_results,     \* results.txt: NoLog, or its lines
    e_oracle,      \* the candidates whose Lucas-Lehmer sequence ends in 0
    e_direct,      \* the latest direct call of test_candidate_with_ll
    g_ll_ran,      \* history: the candidates lucas_lehmer_test was called on
    g_found,       \* history: the candidates lucas_lehmer_test found prime
    \* ---- test_candidate_filtering calling is_valid_mersenne_exponent_candidate ----
    t_pc,          \* "idle", "call" before the call, "returned" after it
    t_p,           \* the argument p
    t_valid,       \* what the call returned
    \* ---- app.py: /api/start_discovery, /api/stop_discovery and the runs ----
    a_running,     \* discovery_state["running"]
    a_engine,      \* discovery_state["engine"]: 0 for None, else the number of the engine
    a_req,         \* per start request: "idle", "accepted", "started" or "rejected"
    a_eng          \* per engine: the background thread, engine.running, the workers

ll_vars == <<ll_variant, ll_p, ll_timeout, ll_pc, ll_i, ll_s, ll_elapsed,
             ll_result, ll_path, ll_verdict>>

disc_vars == <<d_running, d_queue, d_enqueued, d_nworkers, d_oracle, d_tested,
               d_discoveries, d_results, m_pc, w_pc, w_cand, w_tmp,
               g_dequeued, g_done, g_timedout, g_raised, g_stop>>

fin_vars == <<f_pc, f_session, f_config, f_last, f_file, f_filtered, g_L, g_loaded,
              g_handed_test, g_handed_bridge, g_mem_max, g_file_max>>

gen_vars == <<gen_pc, gen_start, gen_end, gen_count, gen_candidates, gen_attempts,
              gen_max_attempts, gen_result, gen_raised>>

parse_vars == <<p_file, p_nlines, p_calls, p_appended, p_prev, p_last>>

chain_vars == <<c_pc, c_size, c_offset, c_calls, g_parsed, g_reparsed, g_returned>>

wt_vars == <<wt_file, wt_backups, wt_clock, wt_calls, g_submit>>

enh_vars == <<e_pc, e_runs, e_candidates, e_i, e_tested, e_discoveries, e_returned,
             e_results, e_oracle, e_direct, g_ll_ran, g_found>>

flt_vars == <<t_pc, t_p, t_valid>>

app_vars == <<a_running, a_engine, a_req, a_eng>>

vars == <<ll_vars, disc_vars, fin_vars, gen_vars, parse_vars, chain_vars, wt_vars, enh_vars, flt_vars, app_vars>>

\* what the actions of one component leave alone
LLFrame    == UNCHANGED <<disc_vars, fin_vars, gen_vars, parse_vars, chain_vars, wt_vars, enh_vars, flt_vars, app_vars>>
DiscFrame  == UNCHANGED <<ll_vars, fin_vars, gen_vars, parse_vars, chain_vars, wt_vars, enh_vars, flt_vars, app_vars>>
FinFrame   == UNCHANGED <<ll_vars, disc_vars, gen_vars, parse_vars, chain_vars, wt_vars, enh_vars, flt_vars, app_vars>>
GenFrame   == UNCHANGED <<ll_vars, disc_vars, fin_vars, parse_vars, chain_vars, wt_vars, enh_vars, flt_vars, app_vars>>
ParseFrame == UNCHANGED <<ll_vars, disc_vars, fin_vars, gen_vars, chain_vars, wt_vars, enh_vars, flt_vars, app_vars>>
ChainFrame == UNCHANGED <<ll_vars, disc_vars, fin_vars, gen_vars, wt_vars, enh_vars, flt_vars, app_vars>>
WtFrame    == UNCHANGED <<ll_vars, disc_vars, fin_vars, gen_vars, parse_vars, chain_vars, enh_vars, flt_vars, app_vars>>
EnhFrame   == UNCHANGED <<ll_vars, disc_vars, fin_vars, gen_vars, parse_vars, chain_vars, flt_vars, app_vars>>
AppFrame == UNCHANGED <<ll_vars, disc_vars, fin_vars, gen_vars, parse_vars, chain_vars, wt_vars, enh_vars, flt_vars>>
FilterFrame == UNCHANGED <<ll_vars, disc_vars, fin_vars, gen_vars, parse_vars, chain_vars, wt_vars, enh_vars, app_vars>>

-----------------------------------------------------------------------------
(* The known-exponent registry, as hard-coded in every class.              *)
known_mersenne_primes ==
    << 2, 3, 5, 7, 13, 17, 19, 31, 61, 89, 107, 127, 521, 607, 1279,
       2203, 2281, 3217, 4253, 4423, 9689, 9941, 11213, 19937, 21701,
       23209, 44497, 86243, 110503, 132049, 216091, 756839, 859433,
       1257787, 1398269, 2976221, 3021377, 6972593, 13466917, 20996011,
       24036583, 25964951, 30402457, 32582657, 37156667, 42643801,
       43112609, 57885161, 74207281, 77232917, 82589933 >>

KnownSet == {known_mersenne_primes[k] : k \in 1..Len(known_mersenne_primes)}

Max(S) == CHOOSE x \in S : \A y \in S : y <= x
Min(S) == CHOOSE x \in S : \A y \in S : x <= y

-----------------------------------------------------------------------------
(* Python integers are unbounded.  The residue s and the modulus           *)
(* M = (1 << p) - 1 are kept as little-endian sequences of limbs in base   *)
(* 2^LimbBits, so that p up to 127 is computed exactly.                    *)
LimbBits == 3 * 4
LimbBase == 2 ^ LimbBits
Limbs(p) == (p + LimbBits - 1) \div LimbBits

At(x, i) == IF i \in 1..Len(x) THEN x[i] ELSE 0

RECURSIVE SumProd(_, _, _, _)
\* sum over j = i..k of a[j] * b[k + 1 - j]: one column of the product
SumProd(a, b, k, i) ==
    IF i > k THEN 0 ELSE At(a, i) * At(b, k + 1 - i) + SumProd(a, b, k, i + 1)

RECURSIVE Carry(_, _, _, _)
\* carry propagation over columns i..n
Carry(raw, i, c, n) ==
    IF i > n THEN <<>>
    ELSE LET t == At(raw, i) + c
         IN  <<t % LimbBase>> \o Carry(raw, i + 1, t \div LimbBase, n)

BigMul(a, b) ==
    LET n   == Len(a) + Len(b)
        raw == [k \in 1..n |-> SumProd(a, b, k, 1)]
    IN  Carry(raw, 1, 0, n)

BigAdd(a, b, n) == Carry([k \in 1..n |-> At(a, k) + At(b, k)], 1, 0, n)

\* a value below the limb base, on n limbs
BigOfSmall(v, n) == [k \in 1..n |-> IF k = 1 THEN v ELSE 0]

BigIsZero(a) == \A k \in 1..Len(a) : a[k] = 0

\* M = (1 << p) - 1: p one-bits
BigMersenne(p) ==
    [k \in 1..Limbs(p) |->
        IF k * LimbBits <= p THEN LimbBase - 1
        ELSE 2 ^ (p - (k - 1) * LimbBits) - 1]

\* x mod 2^p and x div 2^p, on limbs
LowBits(x, p, n) ==
    LET q == p \div LimbBits
        r == p % LimbBits
    IN  [k \in 1..n |-> IF k <= q THEN At(x, k)
                        ELSE IF k = q + 1 THEN At(x, k) % (2 ^ r)
                        ELSE 0]

HighBits(x, p, n) ==
    LET q == p \div LimbBits
        r == p % LimbBits
    IN  [k \in 1..n |-> (At(x, k + q) \div (2 ^ r))
                        + (At(x, k + q + 1) % (2 ^ r)) * (2 ^ (LimbBits - r))]

\* x % M for 0 <= x < 2^(2p): since 2^p = 1 (mod M), x = hi + lo (mod M);
\* two folds bring the value to 0..M, and M itself is 0.
BigModMersenne(x, p) ==
    LET n  == Limbs(p)
        t1 == BigAdd(LowBits(x, p, Len(x)), HighBits(x, p, Len(x)), Len(x))
        t2 == BigAdd(LowBits(t1, p, n + 1), HighBits(t1, p, n + 1), n + 1)
        t3 == SubSeq(t2, 1, n)
    IN  IF t3 = BigMersenne(p) THEN BigOfSmall(0, n) ELSE t3

\* s <- (s * s - 2) % M.  Python's % is non-negative, so the value is
\* (s * s + (M - 2)) % M; M - 2 only changes the lowest limb of M.
LLSquareStepMutant(s, p) ==
    LET n  == Limbs(p)
        m1 == [BigMersenne(p) EXCEPT ![1] = @ - 1]
    IN  BigModMersenne(BigAdd(BigMul(s, s), m1, 2 * n), p)

LLSquareStep(s, p) ==
    LET n  == Limbs(p)
        m2 == [BigMersenne(p) EXCEPT ![1] = @ - 2]
    IN  BigModMersenne(BigAdd(BigMul(s, s), m2, 2 * n), p)

\* s = 4
LLSeed(p) == BigOfSmall(4, Limbs(p))

RECURSIVE LLIterate(_, _, _)
\* k applications of the squaring step (each residue is computed before the
\* next squaring starts, as in the loop)
LLIterate(s, p, k) ==
    IF k <= 0 THEN s
    ELSE LET t == LLSquareStep(s, p)
         IN  IF Len(t) = Limbs(p) THEN LLIterate(t, p, k - 1) ELSE <<>>

\* AdvancedMersennePrimeFinder._lucas_lehmer_test: no time budget
finder_lucas_lehmer_test(p) ==
    IF p = 2 THEN TRUE ELSE BigIsZero(LLIterate(LLSeed(p), p, p - 2))

-----------------------------------------------------------------------------
(* RevolutionaryMersenneDiscovery.run_discovery: one shared queue, a pool  *)
(* of worker threads, the monitoring loop and the joins.                   *)
MaxWorkers == 2      \* worker threads 1..MaxWorkers
DiscSpan   == 2      \* candidates are drawn from DiscStart..DiscStart + DiscSpan
DiscStart  == Max(KnownSet)
DiscRange  == DiscStart..(DiscStart + DiscSpan)
Workers    == 1..MaxWorkers

RECURSIVE SortedSeq(_)
\* sorted(list(set(...)))
SortedSeq(S) == IF S = {} THEN <<>> ELSE <<Min(S)>> \o SortedSeq(S \ {Min(S)})

SeqSet(q) == {q[k] : k \in 1..Len(q)}

\* the variables of the pool before run_discovery is called
DiscIdle ==
    /\ d_running = FALSE
    /\ d_queue = <<>>
    /\ d_enqueued = <<>>
    /\ d_nworkers = 0
    /\ d_oracle = {}
    /\ d_tested = 0
    /\ d_discoveries = <<>>
    /\ d_results = <<>>
    /\ m_pc = "idle"
    /\ w_pc = [w \in Workers |-> "unstarted"]
    /\ w_cand = [w \in Workers |-> 0]
    /\ w_tmp = [w \in Workers |-> 0]
    /\ g_dequeued = [c \in DiscRange |-> {}]
    /\ g_done = [c \in DiscRange |-> 0]
    /\ g_timedout = {}
    /\ g_raised = {}
    /\ g_stop = FALSE

\* The engine is constructed; the candidate list that generate_intelligent_candidates
\* will return (sorted, duplicate-free), the pool size and the primality of the
\* Mersenne numbers in range are the inputs of the run.
DiscConstructed ==
    /\ d_running = FALSE
    /\ d_queue = <<>>
    /\ \E S \in SUBSET DiscRange : S # {} /\ d_enqueued = SortedSeq(S)
    /\ d_nworkers \in Workers
    /\ d_oracle \in SUBSET {c \in DiscRange : c % 2 = 1 /\ c \notin KnownSet}
    /\ d_tested = 0
    /\ d_discoveries = <<>>
    /\ d_results = <<>>
    /\ m_pc = "start"
    /\ w_pc = [w \in Workers |-> "unstarted"]
    /\ w_cand = [w \in Workers |-> 0]
    /\ w_tmp = [w \in Workers |-> 0]
    /\ g_dequeued = [c \in DiscRange |-> {}]
    /\ g_done = [c \in DiscRange |-> 0]
    /\ g_timedout = {}
    /\ g_raised = {}
    /\ g_stop = FALSE

\* self.running = True; the candidates are generated and put on the queue;
\* for i in range(max_workers): thread.start()
run_discovery_start ==
    /\ m_pc = "start"
    /\ d_running' = TRUE
    /\ d_queue' = d_enqueued
    /\ w_pc' = [w \in Workers |-> IF w <= d_nworkers THEN "loop" ELSE "unstarted"]
    /\ m_pc' = "monitor"
    /\ UNCHANGED <<d_enqueued, d_nworkers, d_oracle, d_tested, d_discoveries, d_results,
                   w_cand, w_tmp, g_dequeued, g_done, g_timedout, g_raised, g_stop>>
    /\ DiscFrame

\* while self.running and not candidate_queue.empty(): ... time.sleep(1)
\* (the loop is left as soon as its condition is found false)
run_discovery_monitor_exit ==
    /\ m_pc = "monitor"
    /\ ~(d_running /\ d_queue # <<>>)
    /\ m_pc' = "join"
    /\ UNCHANGED <<d_running, d_queue, d_enqueued, d_nworkers, d_oracle, d_tested,
                   d_discoveries, d_results, w_pc, w_cand, w_tmp,
                   g_dequeued, g_done, g_timedout, g_raised, g_stop>>
    /\ DiscFrame

\* except KeyboardInterrupt: self.running = False
run_discovery_interrupt ==
    /\ m_pc = "monitor"
    /\ d_running' = FALSE
    /\ g_stop' = TRUE
    /\ m_pc' = "join"
    /\ UNCHANGED <<d_queue, d_enqueued, d_nworkers, d_oracle, d_tested,
                   d_discoveries, d_results, w_pc, w_cand, w_tmp,
                   g_dequeued, g_done, g_timedout, g_raised>>
    /\ DiscFrame

\* stop_discovery (app.py): discovery_state["engine"].running = False
stop_discovery ==
    /\ m_pc \in {"monitor", "join"}
    /\ d_running
    /\ d_running' = FALSE
    /\ g_stop' = TRUE
    /\ UNCHANGED <<d_queue, d_enqueued, d_nworkers, d_oracle, d_tested,
                   d_discoveries, d_results, m_pc, w_pc, w_cand, w_tmp,
                   g_dequeued, g_done, g_timedout, g_raised>>
    /\ DiscFrame

\* for thread in self.threads: thread.join(timeout=5) -- each join returns when
\* its thread has ended or when the 5 seconds are over, whichever comes first;
\* then the results are printed and self.discoveries is returned
run_discovery_join ==
    /\ m_pc = "join"
    /\ m_pc' = "returned"
    /\ UNCHANGED <<d_running, d_queue, d_enqueued, d_nworkers, d_oracle, d_tested,
                   d_discoveries, d_results, w_pc, w_cand, w_tmp,
                   g_dequeued, g_done, g_timedout, g_raised, g_stop>>
    /\ DiscFrame

\* test_candidate, up to the Lucas-Lehmer call: "none" when it returns None
\* without testing (pre-screening, already known), "ll" when the test is run
test_candidate_prescreen_mutant(c) ==
    IF c <= 1 \/ c % 2 = 0 THEN "none"
    ELSE "ll"

test_candidate_prescreen(c) ==
    IF c <= 1 \/ c % 2 = 0 THEN "none"
    ELSE IF c \in KnownSet THEN "none"
    ELSE "ll"

WorkerFrame ==
    UNCHANGED <<d_running, d_enqueued, d_nworkers, d_oracle, m_pc, g_stop>>

\* while self.running:
worker_check_running(w) ==
    /\ w_pc[w] = "loop"
    /\ w_pc' = [w_pc EXCEPT ![w] = IF d_running THEN "get" ELSE "exited"]
    /\ UNCHANGED <<d_queue, d_tested, d_discoveries, d_results, w_cand, w_tmp,
                   g_dequeued, g_done, g_timedout, g_raised>>
    /\ WorkerFrame /\ DiscFrame

\* candidate = candidate_queue.get(timeout=1.0); queue.Empty -> continue
worker_get(w) ==
    /\ w_pc[w] = "get"
    /\ IF d_queue # <<>>
       THEN /\ w_cand' = [w_cand EXCEPT ![w] = Head(d_queue)]
            /\ d_queue' = Tail(d_queue)
            /\ g_dequeued' = [g_dequeued EXCEPT ![Head(d_queue)] = @ \cup {w}]
            /\ w_pc' = [w_pc EXCEPT ![w] = "test"]
       ELSE /\ w_pc' = [w_pc EXCEPT ![w] = "loop"]
            /\ UNCHANGED <<w_cand, d_queue, g_dequeued>>
    /\ UNCHANGED <<d_tested, d_discoveries, d_results, w_tmp,
                   g_done, g_timedout, g_raised>>
    /\ WorkerFrame /\ DiscFrame

\* result = self.test_candidate(candidate), when the pre-screening or the
\* known-exponent check returns None: nothing is recorded
worker_test_skipped(w) ==
    /\ w_pc[w] = "test"
    /\ test_candidate_prescreen(w_cand[w]) = "none"
    /\ g_done' = [g_done EXCEPT ![w_cand[w]] = @ + 1]
    /\ w_pc' = [w_pc EXCEPT ![w] = "count_read"]
    /\ UNCHANGED <<d_queue, d_tested, d_discoveries, d_results, w_cand, w_tmp,
                   g_dequeued, g_timedout, g_raised>>
    /\ WorkerFrame /\ DiscFrame

\* test_candidate enters lucas_lehmer_test(candidate, timeout=60.0)
worker_test_begin(w) ==
    /\ w_pc[w] = "test"
    /\ test_candidate_prescreen(w_cand[w]) = "ll"
    /\ w_pc' = [w_pc EXCEPT ![w] = "ll"]
    /\ UNCHANGED <<d_queue, d_tested, d_discoveries, d_results, w_cand, w_tmp,
                   g_dequeued, g_done, g_timedout, g_raised>>
    /\ WorkerFrame /\ DiscFrame

\* the Lucas-Lehmer run completes.  PRIME: the discovery record is built and
\* if result: self.result_queue.put(result); self.discoveries.append(result)
worker_test_completed(w) ==
    /\ w_pc[w] = "ll"
    /\ IF w_cand[w] \in d_oracle
       THEN /\ d_results' = Append(d_results, w_cand[w])
            /\ d_discoveries' = Append(d_discoveries, w_cand[w])
       ELSE UNCHANGED <<d_results, d_discoveries>>
    /\ g_done' = [g_done EXCEPT ![w_cand[w]] = @ + 1]
    /\ w_pc' = [w_pc EXCEPT ![w] = "count_read"]
    /\ UNCHANGED <<d_queue, d_tested, w_cand, w_tmp, g_dequeued, g_timedout, g_raised>>
    /\ WorkerFrame /\ DiscFrame

\* the Lucas-Lehmer run exceeds timeout=60.0: is_prime is False, result None
worker_test_timeout(w) ==
    /\ w_pc[w] = "ll"
    /\ g_done' = [g_done EXCEPT ![w_cand[w]] = @ + 1]
    /\ g_timedout' = g_timedout \cup {w_cand[w]}
    /\ w_pc' = [w_pc EXCEPT ![w] = "count_read"]
    /\ UNCHANGED <<d_queue, d_tested, d_discoveries, d_results, w_cand, w_tmp,
                   g_dequeued, g_raised>>
    /\ WorkerFrame /\ DiscFrame

\* test_candidate raises while it builds the record of a prime
\* (str((1 << candidate) - 1)); worker_thread's  except Exception  prints the
\* error and the loop goes on, past candidates_tested += 1 and task_done()
worker_test_raises(w) ==
    /\ w_pc[w] = "ll"
    /\ w_cand[w] \in d_oracle
    /\ g_done' = [g_done EXCEPT ![w_cand[w]] = @ + 1]
    /\ g_raised' = g_raised \cup {w_cand[w]}
    /\ w_pc' = [w_pc EXCEPT ![w] = "loop"]
    /\ w_cand' = [w_cand EXCEPT ![w] = 0]
    /\ UNCHANGED <<d_queue, d_tested, d_discoveries, d_results, w_tmp,
                   g_dequeued, g_timedout>>
    /\ WorkerFrame /\ DiscFrame

\* self.candidates_tested += 1 -- the read of the attribute ...
worker_count_read(w) ==
    /\ w_pc[w] = "count_read"
    /\ w_tmp' = [w_tmp EXCEPT ![w] = d_tested]
    /\ w_pc' = [w_pc EXCEPT ![w] = "count_write"]
    /\ UNCHANGED <<d_queue, d_tested, d_discoveries, d_results, w_cand,
                   g_dequeued, g_done, g_timedout, g_raised>>
    /\ WorkerFrame /\ DiscFrame

\* ... and the store of the sum; candidate_queue.task_done()
worker_count_write(w) ==
    /\ w_pc[w] = "count_write"
    /\ d_tested' = w_tmp[w] + 1
    /\ w_pc' = [w_pc EXCEPT ![w] = "loop"]
    /\ w_cand' = [w_cand EXCEPT ![w] = 0]
    /\ w_tmp' = [w_tmp EXCEPT ![w] = 0]
    /\ UNCHANGED <<d_queue, d_discoveries, d_results,
                   g_dequeued, g_done, g_timedout, g_raised>>
    /\ WorkerFrame /\ DiscFrame

worker_thread ==
    \E w \in Workers :
        \/ worker_check_running(w)
        \/ worker_get(w)
        \/ worker_test_skipped(w)
        \/ worker_test_begin(w)
        \/ worker_test_completed(w)
        \/ worker_test_timeout(w)
        \/ worker_test_raises(w)
        \/ worker_count_read(w)
        \/ worker_count_write(w)

DiscNext ==
    \/ run_discovery_start
    \/ run_discovery_monitor_exit
    \/ run_discovery_interrupt
    \/ stop_discovery
    \/ run_discovery_join
    \/ worker_thread

-----------------------------------------------------------------------------
(* One call of the tester with a time budget.                              *)
MaxSmallP  == 31     \* every exponent 2..MaxSmallP is tried
MaxBudget  == 2      \* time budgets 0..MaxBudget ticks
LargeExponents == {61, 89, 107, 127}
LLExponents == (2..MaxSmallP) \cup LargeExponents
LLVariants == {"revolutionary", "finder", "app"}

\* the result of a call that has not returned yet
NoResult == [is_prime |-> FALSE, time |-> 0, raised |-> "none"]

LLCalled ==
    /\ ll_variant \in LLVariants
    /\ ll_p \in LLExponents
    /\ ll_timeout \in 0..MaxBudget
    /\ ll_pc = "call"
    /\ ll_i = 0
    /\ ll_s = <<>>
    /\ ll_elapsed = 0
    /\ ll_result = NoResult
    /\ ll_path = "none"
    /\ ll_verdict = "none"

\* if p == 2: return True, 0.0   /  s = 4; M = (1 << p) - 1
ll_enter ==
    /\ ll_pc = "call"
    /\ IF ll_p = 2
       THEN /\ ll_pc' = "returned"
            /\ ll_result' = [is_prime |-> TRUE, time |-> 0, raised |-> "none"]
            /\ ll_path' = "p2"
            /\ UNCHANGED <<ll_s>>
       ELSE /\ ll_pc' = "loop"
            /\ ll_s' = LLSeed(ll_p)
            /\ UNCHANGED <<ll_result, ll_path>>
    /\ UNCHANGED <<ll_variant, ll_p, ll_timeout, ll_i, ll_elapsed, ll_verdict>>
    /\ LLFrame

\* AdvancedMersennePrimeFinder._lucas_lehmer_test, one loop iteration:
\* no clock, no budget
ll_iter_finder ==
    /\ ll_pc = "loop"
    /\ ll_variant = "finder"
    /\ ll_i < ll_p - 2
    /\ ll_s' = LLSquareStep(ll_s, ll_p)
    /\ ll_i' = ll_i + 1
    /\ UNCHANGED <<ll_variant, ll_p, ll_timeout, ll_pc, ll_elapsed, ll_result, ll_path,
                   ll_verdict>>
    /\ LLFrame

\* RevolutionaryMersenneDiscovery.lucas_lehmer_test, one loop iteration:
\* the budget is checked first, then the squaring runs (and takes time).
ll_iter_revolutionary ==
    /\ ll_pc = "loop"
    /\ ll_variant = "revolutionary"
    /\ ll_i < ll_p - 2
    /\ IF ll_elapsed > ll_timeout
       THEN /\ ll_pc' = "returned"
            /\ ll_result' = [is_prime |-> FALSE, time |-> ll_elapsed, raised |-> "none"]
            /\ ll_path' = "timeout"
            /\ UNCHANGED <<ll_s, ll_i, ll_elapsed>>
       ELSE /\ ll_s' = LLSquareStep(ll_s, ll_p)
            /\ ll_i' = ll_i + 1
            /\ \E d \in 0..1 : ll_elapsed' = ll_elapsed + d
            /\ UNCHANGED <<ll_pc, ll_result, ll_path>>
    /\ UNCHANGED <<ll_variant, ll_p, ll_timeout, ll_verdict>>
    /\ LLFrame

\* MersenneCalculator.lucas_lehmer_test (app.py), one loop iteration:
\* the squaring runs, then the budget is checked and TimeoutError raised.
ll_iter_app ==
    /\ ll_pc = "loop"
    /\ ll_variant = "app"
    /\ ll_i < ll_p - 2
    /\ ll_s' = LLSquareStep(ll_s, ll_p)
    /\ ll_i' = ll_i + 1
    /\ \E d \in 0..1 : ll_elapsed' = ll_elapsed + d
    /\ IF ll_elapsed' > ll_timeout
       THEN /\ ll_pc' = "returned"
            /\ ll_result' = [is_prime |-> FALSE, time |-> ll_elapsed', raised |-> "TimeoutError"]
            /\ ll_path' = "timeout"
       ELSE UNCHANGED <<ll_pc, ll_result, ll_path>>
    /\ UNCHANGED <<ll_variant, ll_p, ll_timeout, ll_verdict>>
    /\ LLFrame

\* after the loop: is_prime = (s == 0)
ll_finish ==
    /\ ll_pc = "loop"
    /\ ll_i >= ll_p - 2
    /\ ll_pc' = "returned"
    /\ ll_result' = [is_prime |-> BigIsZero(ll_s), time |-> ll_elapsed, raised |-> "none"]
    /\ ll_path' = "completed"
    /\ UNCHANGED <<ll_variant, ll_p, ll_timeout, ll_i, ll_s, ll_elapsed, ll_verdict>>
    /\ LLFrame

\* What the caller makes of the result.  test_candidate / test_candidate_with_ll
\* (and test_candidates of the finder) branch on is_prime alone and print
\* "Not prime" otherwise; test_mersenne_number catches TimeoutError.
CallerVerdictMutant(variant, result) ==
    IF result.is_prime THEN "PRIME" ELSE "COMPOSITE"

CallerVerdict(variant, result) ==
    IF variant = "app" /\ result.raised = "TimeoutError" THEN "TIMEOUT"
    ELSE IF result.is_prime THEN "PRIME"
    ELSE "COMPOSITE"

ll_caller ==
    /\ ll_pc = "returned"
    /\ ll_pc' = "reported"
    /\ ll_verdict' = CallerVerdict(ll_variant, ll_result)
    /\ UNCHANGED <<ll_variant, ll_p, ll_timeout, ll_i, ll_s, ll_elapsed, ll_result,
                   ll_path>>
    /\ LLFrame

LLNext ==
    \/ ll_enter
    \/ ll_iter_finder
    \/ ll_iter_revolutionary
    \/ ll_iter_app
    \/ ll_finish
    \/ ll_caller

-----------------------------------------------------------------------------
(* The Prime95 work file.  prime95_integration.integrate_with_prime95,      *)
(* fixed_prime95_integration.integrate_with_prime95 and                     *)
(* EnhancedMersenneDiscovery.queue_for_prime95_verification write to it.    *)
(* A line is the tuple of its keyword and its comma-separated fields:       *)
(* "Test=5" is <<"Test", 5>>, "PRP=5,1" is <<"PRP", 5, 1>> and              *)
(* "LL=1,2,5,-1" is <<"LL", 1, 2, 5, -1>>.                                  *)
MaxSubmitLen == 2      \* length of the exponents list of a call
MaxSubmits == 2        \* submit calls
MaxClock == 1          \* seconds that pass

NoWork == <<"no file">>

SubmitExponents == {1, 3, 5}
SubmitLists == UNION {[1..n -> SubmitExponents] : n \in 0..MaxSubmitLen}
SubmitModes == {"LL", "prp", "PFACTOR", "ECM"}
SubmitConfigs ==
    [enabled : BOOLEAN, worktodo_path : BOOLEAN, mode : SubmitModes, append : BOOLEAN]

\* str.upper() on the modes a configuration holds
upper(mode) ==
    CASE mode = "prp" -> "PRP"
      [] OTHER -> mode

\* the line generate_worktodo_lines formats for p
worktodo_line(mode, p) ==
    IF upper(mode) = "LL" THEN <<"Test", p>>
    ELSE IF upper(mode) = "PRP" THEN <<"PRP", p, 1>>
    ELSE IF upper(mode) = "PFACTOR" THEN <<"Pfactor", p>>
    ELSE <<"Test", p>>

\* prime95_integration.generate_worktodo_lines
generate_worktodo_lines(exponents, mode) ==
    [k \in 1..Cardinality({x \in SeqSet(exponents) : x > 1}) |->
        worktodo_line(mode, SortedSeq({x \in SeqSet(exponents) : x > 1})[k])]

\* the exponents fixed_prime95_integration.generate_worktodo_lines keeps
fixed_kept(exponents) == SelectSeq(exponents, LAMBDA p : p > 1)

\* fixed_prime95_integration.generate_worktodo_lines
fixed_generate_worktodo_lines(exponents, mode) ==
    [k \in 1..Len(fixed_kept(exponents)) |->
        worktodo_line(IF upper(mode) \in {"LL", "PRP", "PFACTOR"} THEN upper(mode) ELSE "LL",
                      fixed_kept(exponents)[k])]

\* backup_file: copy2 to path.ts.bak, over a copy of the same second
backup_file(file, backups, ts) ==
    IF file = NoWork THEN backups
    ELSE {b \in backups : b.ts # ts} \cup {[ts |-> ts, contents |-> file]}

\* open(worktodo_path, 'a' or 'w') and the writes of the lines
written(file, lines, append) ==
    (IF append /\ file # NoWork THEN file ELSE <<>>) \o lines

\* the work file was never written
WtIdle ==
    /\ wt_file = NoWork
    /\ wt_backups = {}
    /\ wt_clock = 0
    /\ wt_calls = 0
    /\ g_submit = [op |-> "none"]

submitted(op, exponents, mode, append, wrote) ==
    [op |-> op, exponents |-> exponents, mode |-> mode, append |-> append,
     wrote |-> wrote, before |-> wt_file, after |-> wt_file']

\* a second passes
wt_tick ==
    /\ wt_clock < MaxClock
    /\ wt_clock' = wt_clock + 1
    /\ UNCHANGED <<wt_file, wt_backups, wt_calls, g_submit>>
    /\ WtFrame

\* prime95_integration.integrate_with_prime95; open() may raise
integrate_with_prime95 ==
    /\ wt_calls < MaxSubmits
    /\ wt_calls' = wt_calls + 1
    /\ UNCHANGED wt_clock
    /\ \E exponents \in SubmitLists, config \in SubmitConfigs, opened \in BOOLEAN :
          /\ IF ~config.enabled \/ ~config.worktodo_path
             THEN /\ opened
                  /\ UNCHANGED <<wt_file, wt_backups>>
             ELSE /\ wt_backups' = IF config.append
                                   THEN backup_file(wt_file, wt_backups, wt_clock)
                                   ELSE wt_backups
                  /\ wt_file' = IF opened
                                THEN written(wt_file,
                                             generate_worktodo_lines(exponents, config.mode),
                                             config.append)
                                ELSE wt_file
          /\ g_submit' = submitted("integrate_with_prime95", exponents, config.mode,
                                   config.append,
                                   config.enabled /\ config.worktodo_path /\ opened)
    /\ WtFrame

\* fixed_prime95_integration.integrate_with_prime95; every exception is caught
fixed_integrate_with_prime95 ==
    /\ wt_calls < MaxSubmits
    /\ wt_calls' = wt_calls + 1
    /\ UNCHANGED wt_clock
    /\ \E exponents \in SubmitLists, config \in SubmitConfigs, opened \in BOOLEAN :
          /\ IF \/ exponents = <<>>
                \/ ~config.enabled
                \/ ~config.worktodo_path
                \/ fixed_generate_worktodo_lines(exponents, config.mode) = <<>>
             THEN /\ opened
                  /\ UNCHANGED <<wt_file, wt_backups>>
                  /\ g_submit' = submitted("fixed_integrate_with_prime95", exponents,
                                           config.mode, config.append, FALSE)
             ELSE /\ wt_backups' = IF config.append
                                   THEN backup_file(wt_file, wt_backups, wt_clock)
                                   ELSE wt_backups
                  /\ wt_file' = IF opened
                                THEN written(wt_file,
                                             fixed_generate_worktodo_lines(exponents, config.mode),
                                             config.append)
                                ELSE wt_file
                  /\ g_submit' = submitted("fixed_integrate_with_prime95", exponents,
                                           config.mode, config.append, opened)
    /\ WtFrame

\* the line queue_for_prime95_verification formats: f"{mode}=1,2,{exponent},-1"
verification_line(mode, exponent) == <<mode, 1, 2, exponent, -1>>

\* EnhancedMersenneDiscovery.queue_for_prime95_verification: what it does to the
\* work file; every exception is caught
queue_write(exponent, mode, opened) ==
    /\ wt_file' = IF opened
                  THEN written(wt_file, <<verification_line(mode, exponent)>>, TRUE)
                  ELSE wt_file
    /\ g_submit' = submitted("queue_for_prime95_verification", <<exponent>>, mode, TRUE, opened)
    /\ UNCHANGED <<wt_backups, wt_clock>>

\* queue_for_prime95_verification called for a discovery
queue_for_prime95_verification ==
    /\ wt_calls < MaxSubmits
    /\ wt_calls' = wt_calls + 1
    /\ \E exponent \in SubmitExponents \ {1}, mode \in SubmitModes, opened \in BOOLEAN :
          queue_write(exponent, mode, opened)
    /\ WtFrame

WtNext ==
    \/ wt_tick
    \/ integrate_with_prime95
    \/ fixed_integrate_with_prime95
    \/ queue_for_prime95_verification

-----------------------------------------------------------------------------
(* AdvancedMersennePrimeFinder: sessions over partial_search_result.json.  *)
(* A session is one process: __init__ (which loads the state), any number  *)
(* of run_search calls, and the end of the process.  Of SearchState the    *)
(* field last_exponent_tested is kept.                                     *)
LATEST_KNOWN_EXPONENT == 82589933
FinderSpan  == 5     \* exponents up to LATEST_KNOWN_EXPONENT + FinderSpan
MaxSessions == 3     \* processes started one after the other

FinderWindow == (LATEST_KNOWN_EXPONENT - 1)..(LATEST_KNOWN_EXPONENT + FinderSpan)
FinderOdds   == {p \in FinderWindow : p % 2 = 1}

\* configured (start, end) pairs, as written by the user
FinderRanges == {r \in FinderWindow \X FinderWindow : r[1] < r[2]}
\* search_ranges of the configuration: no entry or one entry
RangeLists == {<<>>} \cup {<<r>> : r \in FinderRanges}
FinderConfigs ==
    [search_ranges : RangeLists, enabled : BOOLEAN, use_for_ll : BOOLEAN]

NoFile == [status |-> "absent", last_exponent_tested |-> 0]
\* analyze_patterns: the regression over the 51 registry entries predicts
\* 599436335, 868892770, 1259474280, 1825628565, 2646278460; none lies within
\* LATEST_KNOWN_EXPONENT + 10_000 .. LATEST_KNOWN_EXPONENT + 50_000_000, so the
\* list of reasonable predictions is empty.
analyze_patterns == <<>>

generate_search_ranges(predictions) ==
    [k \in 1..Len(predictions) |->
        LET pred   == predictions[k]
            margin == Max({100000, pred \div 10})
        IN  <<Max({LATEST_KNOWN_EXPONENT, pred - margin}), pred + margin>>]

RECURSIVE configured_ranges(_)
\* the fallback loop of run_search over config['search_ranges']
configured_ranges(cfg) ==
    IF cfg = <<>> THEN <<>>
    ELSE LET start == cfg[1][1]
             end   == cfg[1][2]
         IN  (IF end > start /\ end > LATEST_KNOWN_EXPONENT
                 THEN << <<Max({start, LATEST_KNOWN_EXPONENT + 1}), end>> >>
                 ELSE <<>>) \o configured_ranges(Tail(cfg))

Take(q, n) == SubSeq(q, 1, IF Len(q) < n THEN Len(q) ELSE n)

\* _search_range_python: the odd p of [start, end) that pass _is_probably_prime,
\* at most max_candidates of them.  The Miller-Rabin bases are random, so which
\* numbers pass is an input (passing) of the call.
search_range(start, end, max_candidates, passing) ==
    Take(SortedSeq({p \in start..(end - 1) : p % 2 = 1 /\ p \in passing}), max_candidates)

RECURSIVE search_ranges(_, _)
\* Step 3 of run_search: all_candidates.extend(search_range(start, end))
search_ranges(ranges, passing) ==
    IF ranges = <<>> THEN <<>>
    ELSE search_range(ranges[1][1], ranges[1][2], 10000, passing)
            \o search_ranges(Tail(ranges), passing)

start_after_mutant(last) == LATEST_KNOWN_EXPONENT
\* start_after = max(LATEST_KNOWN_EXPONENT, self.state.last_exponent_tested)
start_after(last) == Max({LATEST_KNOWN_EXPONENT, last})

\* filtered_candidates = [p for p in all_candidates if p > start_after]
filtered_candidates(all_candidates, last) ==
    SelectSeq(all_candidates, LAMBDA p : p > start_after(last))

\* _load_state: the file's value when it exists and parses, else the default
\* of SearchState() (every exception is swallowed)
load_state(file) ==
    IF file.status = "valid" THEN file.last_exponent_tested ELSE 0

FinIdle ==
    /\ f_pc = "none"
    /\ f_session = 0
    /\ f_config = [search_ranges |-> <<>>, enabled |-> FALSE, use_for_ll |-> FALSE]
    /\ f_last = 0
    /\ f_file = NoFile
    /\ f_filtered = <<>>
    /\ g_L = 0
    /\ g_loaded = -1
    /\ g_handed_test = {}
    /\ g_handed_bridge = {}
    /\ g_mem_max = 0
    /\ g_file_max = 0

\* no process yet, no state file yet
FinNoSession ==
    /\ f_pc = "off"
    /\ f_session = 0
    /\ f_config = [search_ranges |-> <<>>, enabled |-> FALSE, use_for_ll |-> FALSE]
    /\ f_last = 0
    /\ f_file = NoFile
    /\ f_filtered = <<>>
    /\ g_L = 0
    /\ g_loaded = -1
    /\ g_handed_test = {}
    /\ g_handed_bridge = {}
    /\ g_mem_max = 0
    /\ g_file_max = 0

\* __init__: _load_config, SearchState(), _load_state
finder_init ==
    /\ f_pc = "off"
    /\ f_session < MaxSessions
    /\ f_session' = f_session + 1
    /\ f_config' \in FinderConfigs
    /\ f_last' = load_state(f_file)
    /\ g_loaded' = IF f_file.status = "valid" THEN f_file.last_exponent_tested ELSE -1
    /\ g_mem_max' = Max({g_mem_max, f_last'})
    /\ f_pc' = "ready"
    /\ f_filtered' = <<>>
    /\ g_handed_test' = {}
    /\ g_handed_bridge' = {}
    /\ g_L' = f_last'
    /\ UNCHANGED <<f_file, g_file_max>>
    /\ FinFrame

\* run_search up to the call of test_candidates: ranges, search, filter
run_search ==
    /\ f_pc \in {"ready", "done"}
    /\ \E passing \in SUBSET FinderOdds :
          LET predictions == analyze_patterns
              ranges == IF predictions # <<>>
                           THEN generate_search_ranges(predictions)
                           ELSE configured_ranges(f_config.search_ranges)
              all_candidates == search_ranges(ranges, passing)
          IN  /\ f_filtered' = IF ranges = <<>> THEN <<>>
                               ELSE filtered_candidates(all_candidates, f_last)
              /\ f_pc' = IF f_filtered' = <<>> THEN "done" ELSE "test"
    /\ g_L' = f_last
    /\ g_handed_test' = {}
    /\ g_handed_bridge' = {}
    /\ UNCHANGED <<f_session, f_config, f_last, f_file, g_loaded, g_mem_max, g_file_max>>
    /\ FinFrame

\* _save_state: open(state_file, 'w') truncates the file and json.dump writes
\* it piece by piece; every exception is swallowed.
\*   "written"      the record is on disk
\*   "open_failed"  the file is as it was
\*   "write_failed" the file is truncated or holds a prefix of the record
save_state(file, last, outcome) ==
    CASE outcome = "written"      -> [status |-> "valid", last_exponent_tested |-> last]
      [] outcome = "open_failed"  -> file
      [] outcome = "write_failed" -> [status |-> "corrupt", last_exponent_tested |-> 0]

\* test_candidates(filtered_candidates): every candidate is above max_testable
\* (or left to Prime95), the resume point is raised and the state is saved
test_candidates ==
    /\ f_pc = "test"
    /\ g_handed_test' = g_handed_test \cup SeqSet(f_filtered)
    /\ f_last' = Max({f_last, Max(SeqSet(f_filtered))})
    /\ \E outcome \in {"written", "open_failed", "write_failed"} :
          f_file' = save_state(f_file, f_last', outcome)
    /\ g_mem_max' = Max({g_mem_max, f_last'})
    /\ g_file_max' = IF f_file'.status = "valid"
                        THEN Max({g_file_max, f_file'.last_exponent_tested})
                        ELSE g_file_max
    /\ f_pc' = IF f_config.enabled /\ ~f_config.use_for_ll THEN "bridge" ELSE "done"
    /\ UNCHANGED <<f_session, f_config, f_filtered, g_L, g_loaded, g_handed_bridge>>
    /\ FinFrame

\* test_candidates with use_prime95_ll: parse_results opens a results.txt
\* that exists and cannot be read; the exception leaves test_candidates and
\* run_search before last_exponent_tested is raised and saved
test_candidates_unreadable ==
    /\ f_pc = "test"
    /\ f_config.enabled /\ f_config.use_for_ll
    /\ g_handed_test' = g_handed_test \cup SeqSet(f_filtered)
    /\ f_pc' = "raised"
    /\ UNCHANGED <<f_session, f_config, f_last, f_file, f_filtered, g_L, g_loaded,
                   g_handed_bridge, g_mem_max, g_file_max>>
    /\ FinFrame

\* Step 5 of run_search: integrate_with_prime95(filtered_candidates, self.config).
\* What the call does to worktodo.txt is integrate_with_prime95 of the work
\* file above; of the call the finder sees that it returns or, when
\* ensure_directory, backup_file or open(worktodo_path, 'a') raises, that the
\* exception leaves run_search.
finder_integrate_with_prime95 ==
    /\ f_pc = "bridge"
    /\ g_handed_bridge' = g_handed_bridge \cup SeqSet(f_filtered)
    /\ \E opened \in BOOLEAN : f_pc' = IF opened THEN "done" ELSE "raised"
    /\ UNCHANGED <<f_session, f_config, f_last, f_file, f_filtered, g_L, g_loaded,
                   g_handed_test, g_mem_max, g_file_max>>
    /\ FinFrame

\* the process ends: main() returns, or the process is interrupted or killed
finder_exit ==
    /\ f_pc \in {"ready", "test", "bridge", "done", "raised"}
    /\ f_pc' = "off"
    /\ UNCHANGED <<f_session, f_config, f_last, f_file, f_filtered, g_L, g_loaded,
                   g_handed_test, g_handed_bridge, g_mem_max, g_file_max>>
    /\ FinFrame

\* the process is killed while _save_state is between open() and the end of
\* json.dump: the file is left truncated or partial
finder_killed_in_save ==
    /\ f_pc = "test"
    /\ g_handed_test' = g_handed_test \cup SeqSet(f_filtered)
    /\ f_last' = Max({f_last, Max(SeqSet(f_filtered))})
    /\ g_mem_max' = Max({g_mem_max, f_last'})
    /\ f_file' = save_state(f_file, f_last', "write_failed")
    /\ f_pc' = "off"
    /\ UNCHANGED <<f_session, f_config, f_filtered, g_L, g_loaded, g_handed_bridge,
                   g_file_max>>
    /\ FinFrame

FinNext ==
    \/ finder_init
    \/ run_search
    \/ test_candidates
    \/ test_candidates_unreadable
    \/ finder_integrate_with_prime95
    \/ finder_exit
    \/ finder_killed_in_save

-----------------------------------------------------------------------------
(* Modular arithmetic of is_prime.  Every number of the model is below     *)
(* 2^27, and products are formed four bits at a time so that no            *)
(* intermediate value leaves 32 bits; Python's pow(a, d, n) is exact.      *)
RECURSIVE MulModAcc(_, _, _, _, _)
\* (acc * 16^k + a * (the low k hex digits of b)) % n
MulModAcc(a, b, n, k, acc) ==
    IF acc < 0 THEN 0
    ELSE IF k = 0 THEN acc
    ELSE LET chunk == (b \div (16 ^ (k - 1))) % 16
         IN  MulModAcc(a, b, n, k - 1, (((acc * 16) % n) + ((a * chunk) % n)) % n)

MulMod(a, b, n) == MulModAcc(a % n, b, n, 7, 0)

RECURSIVE PowModAcc(_, _, _, _)
\* acc * base^e % n by binary exponentiation
PowModAcc(base, e, n, acc) ==
    IF base < 0 \/ acc < 0 THEN 0
    ELSE IF e = 0 THEN acc
    ELSE PowModAcc(MulMod(base, base, n), e \div 2, n,
                   IF e % 2 = 1 THEN MulMod(acc, base, n) ELSE acc)

pow(a, d, n) == PowModAcc(a % n, d, n, 1 % n)

RECURSIVE OddPart(_)
\* d after  while d % 2 == 0: d //= 2
OddPart(d) == IF d % 2 = 0 THEN OddPart(d \div 2) ELSE d

RECURSIVE TwoExp(_)
\* r after  while d % 2 == 0: r += 1
TwoExp(d) == IF d % 2 = 0 THEN 1 + TwoExp(d \div 2) ELSE 0

RECURSIVE SquareReaches(_, _, _)
\* for _ in range(r - 1): x = pow(x, 2, n); if x == n - 1: break
\* TRUE when the loop ends by break, FALSE when the else branch returns False
SquareReaches(xx, k, n) ==
    IF xx < 0 THEN FALSE
    ELSE IF k = 0 THEN FALSE
    ELSE IF pow(xx, 2, n) = n - 1 THEN TRUE
    ELSE SquareReaches(pow(xx, 2, n), k - 1, n)

\* bases: [2, 3], [31, 73] or [2, 7, 61]; the longer list is for n from
\* 4759123141 on, beyond every number of the model
MillerRabinBases(n) ==
    IF n < 1373653 THEN <<2, 3>>
    ELSE IF n < 9080191 THEN <<31, 73>>
    ELSE <<2, 7, 61>>

\* one round of the loop  for a in bases
MillerRabinWitness(x0, twos, n) ==
    IF x0 < 0 \/ twos < 0 THEN FALSE
    ELSE IF x0 = 1 \/ x0 = n - 1 THEN TRUE
    ELSE SquareReaches(x0, twos - 1, n)

MillerRabinRound(a, n) ==
    IF a >= n THEN TRUE
    ELSE MillerRabinWitness(pow(a, OddPart(n - 1), n), TwoExp(n - 1), n)

is_prime(n) ==
    IF n < 2 THEN FALSE
    ELSE IF n = 2 THEN TRUE
    ELSE IF n % 2 = 0 THEN FALSE
    ELSE IF n < 9 THEN TRUE
    ELSE IF n % 3 = 0 THEN FALSE
    ELSE \A k \in 1..Len(MillerRabinBases(n)) :
            MillerRabinRound(MillerRabinBases(n)[k], n)

-----------------------------------------------------------------------------
(* EnhancedMersenneDiscovery: the candidate filter and the weights that    *)
(* _analyze_known_patterns derives from the registry.                      *)
last_known_exponent_mutant == Min(KnownSet)
\* self.last_known_exponent = max(self.known_mersenne_primes)
last_known_exponent == Max(KnownSet)

\* len(bin(p)[2:])
RECURSIVE BitLength(_)
BitLength(p) == IF p <= 0 THEN 0 ELSE 1 + BitLength(p \div 2)

\* the filter with the frontier itself let through
is_valid_mersenne_exponent_candidate_mutant(p) ==
    IF p < last_known_exponent THEN FALSE
    ELSE IF p % 2 = 0 THEN FALSE
    ELSE IF ~is_prime(p) THEN FALSE
    ELSE IF p % 4 \notin {1, 3} THEN FALSE
    ELSE IF p > 3 /\ p % 6 \notin {1, 5} THEN FALSE
    ELSE IF p > 5 /\ p % 10 \notin {1, 3, 7, 9} THEN FALSE
    ELSE IF BitLength(p) < 20 THEN FALSE
    ELSE ~(\/ (p % 210) % 2 = 0 \/ (p % 210) % 3 = 0
           \/ (p % 210) % 5 = 0 \/ (p % 210) % 7 = 0)

is_valid_mersenne_exponent_candidate(p) ==
    IF p <= last_known_exponent THEN FALSE
    ELSE IF p % 2 = 0 THEN FALSE
    ELSE IF ~is_prime(p) THEN FALSE
    ELSE IF p % 4 \notin {1, 3} THEN FALSE
    ELSE IF p > 3 /\ p % 6 \notin {1, 5} THEN FALSE
    ELSE IF p > 5 /\ p % 10 \notin {1, 3, 7, 9} THEN FALSE
    ELSE IF BitLength(p) < 20 THEN FALSE
    ELSE ~(\/ (p % 210) % 2 = 0 \/ (p % 210) % 3 = 0
           \/ (p % 210) % 5 = 0 \/ (p % 210) % 7 = 0)

NumKnown == Len(known_mersenne_primes)

\* weights["avg_gap"] = sum(gaps) / len(gaps), a float: int(avg_gap) and
\* int(avg_gap * 1.1) are what the generator uses
int_avg_gap ==
    (known_mersenne_primes[NumKnown] - known_mersenne_primes[1]) \div (NumKnown - 1)
int_avg_gap_times_1_1 ==
    ((known_mersenne_primes[NumKnown] - known_mersenne_primes[1]) * 11)
        \div ((NumKnown - 1) * 10)

\* growth_rate = (log(last) - log(tenth from last)) / 9 = 0.12857...,
\* in thousandths
growth_rate_permille == 128
\* weights["exponential"] = min(0.8, max(0.3, growth_rate)), in thousandths
exponential_permille == Min({800, Max({300, growth_rate_permille})})

\* weights["mod_patterns"]: residue mod 210 -> number of registry entries
mod_patterns_keys == {known_mersenne_primes[k] % 210 : k \in 1..NumKnown}
mod_patterns(m) == Cardinality({k \in 1..NumKnown : known_mersenne_primes[k] % 210 = m})
mod_first_index(m) == Min({k \in 1..NumKnown : known_mersenne_primes[k] % 210 = m})

\* sorted(items, key=frequency, reverse=True) is stable: equal frequencies
\* keep the order of first insertion
mod_before(m, o) ==
    \/ mod_patterns(m) > mod_patterns(o)
    \/ mod_patterns(m) = mod_patterns(o) /\ mod_first_index(m) < mod_first_index(o)

RECURSIVE most_common(_, _)
most_common(S, k) ==
    IF k = 0 \/ S = {} THEN <<>>
    ELSE LET best == CHOOSE m \in S : \A o \in S \ {m} : mod_before(m, o)
         IN  <<best>> \o most_common(S \ {best}, k - 1)

\* common_mods[:3]
common_mods == most_common(mod_patterns_keys, 3)

-----------------------------------------------------------------------------
(* The windows (start, end) the generators are called with.  start and end *)
(* are taken next to five exponents: the frontier, the first two valid     *)
(* candidates above it, the first hit of the gap-based strategy and the    *)
(* first hit of the modulo strategy.                                       *)
GenWidth    == 30    \* |end - start| of a window of generate_candidates_after_52nd
MaxCount    == 6     \* count of generate_candidates_after_52nd is 0..MaxCount
Calls       == {1, 2}   \* two calls with identical arguments, side by side

Frontier == Max(KnownSet)

RECURSIVE NextValidStep(_, _)
\* the first valid candidate among p, p + step, p + 2 * step, ...
NextValidStep(p, step) ==
    IF is_valid_mersenne_exponent_candidate(p) THEN p ELSE NextValidStep(p + step, step)

FirstValid  == NextValidStep(Frontier + 1, 1)
SecondValid == NextValidStep(FirstValid + 1, 1)
FirstGapHit == NextValidStep(Frontier + int_avg_gap, int_avg_gap_times_1_1)
FirstModHit ==
    NextValidStep((Frontier + 1) - ((Frontier + 1) % 210) + common_mods[1], 210)

\* the elements of S, listed one by one
Listed(S) == {x : x \in S}

GenAnchors == {Frontier, FirstValid, SecondValid, FirstGapHit, FirstModHit}
GenPoints  == Listed(UNION {{a - 1, a, a + 1} : a \in GenAnchors})
GenPairs   == Listed({w \in GenPoints \X GenPoints :
                         w[2] - w[1] <= GenWidth /\ w[1] - w[2] <= GenWidth})

\* the numbers a window can draw, and the filter's verdict on each of them
GenUniverse == Listed(UNION {w[1]..(w[2] + 1) : w \in GenPairs})
ValidCandidates == Listed({p \in GenUniverse : is_valid_mersenne_exponent_candidate(p)})
is_valid_candidate(p) ==
    IF p \in GenUniverse THEN p \in ValidCandidates
    ELSE is_valid_mersenne_exponent_candidate(p)

-----------------------------------------------------------------------------
(* EnhancedMersenneDiscovery.generate_candidates_after_52nd                *)

\* effective_start = max(start, self.last_known_exponent + 1)
effective_start(start) == Max({start, last_known_exponent + 1})

\* int(current * (1 + weights["exponential"] * 0.1))
exponential_next(current) ==
    current + (current \div 10000) * exponential_permille
            + ((current % 10000) * exponential_permille) \div 10000

RECURSIVE exponential_progression(_, _, _, _)
\* Strategy 1: while current < end and len(candidates) < count // 3
exponential_progression(candidates, current, end, count) ==
    IF Len(candidates) < 0 \/ current < 0 THEN <<>>
    ELSE IF current < end /\ Len(candidates) < count \div 3
    THEN LET next_candidate == exponential_next(current)
         IN  IF next_candidate > current /\ next_candidate < end
             THEN exponential_progression(
                      IF is_valid_candidate(next_candidate)
                          THEN Append(candidates, next_candidate) ELSE candidates,
                      next_candidate, end, count)
             ELSE exponential_progression(candidates, current + 2, end, count)
    ELSE candidates

RECURSIVE gap_based_prediction(_, _, _, _, _)
\* Strategy 2: while predicted < end and len(candidates) < count // 3
gap_based_prediction(candidates, predicted, estart, end, count) ==
    IF Len(candidates) < 0 \/ predicted < 0 THEN <<>>
    ELSE IF predicted < end /\ Len(candidates) < count \div 3
    THEN gap_based_prediction(
             IF predicted > estart /\ is_valid_candidate(predicted)
                 THEN Append(candidates, predicted) ELSE candidates,
             predicted + int_avg_gap_times_1_1, estart, end, count)
    ELSE candidates

RECURSIVE modulo_scan(_, _, _, _, _)
\* Strategy 3, inner loop: while current < end and len(candidates) < count // 6
modulo_scan(candidates, current, estart, end, count) ==
    IF Len(candidates) < 0 \/ current < 0 THEN <<>>
    ELSE IF current < end /\ Len(candidates) < count \div 6
    THEN modulo_scan(
             IF current > estart /\ is_valid_candidate(current)
                 THEN Append(candidates, current) ELSE candidates,
             current + 210, estart, end, count)
    ELSE candidates

RECURSIVE modulo_patterns(_, _, _, _, _)
\* Strategy 3: for mod, freq in common_mods[:3]
modulo_patterns(candidates, mods, estart, end, count) ==
    IF Len(candidates) < 0 THEN <<>>
    ELSE IF mods = <<>> THEN candidates
    ELSE modulo_patterns(
             modulo_scan(candidates, estart - (estart % 210) + Head(mods),
                         estart, end, count),
             Tail(mods), estart, end, count)

\* Strategy 4, one pass of the loop body with the drawn number r
backfill_step(candidates, r, end) ==
    LET candidate == IF r % 2 = 0 THEN r + 1 ELSE r
    IN  IF /\ candidate \notin SeqSet(candidates)
           /\ candidate <= end
           /\ is_valid_candidate(candidate)
        THEN Append(candidates, candidate)
        ELSE candidates

final_candidates_mutant(candidates, count) == Take(candidates, count)
\* candidates = sorted(list(set(candidates))); final_candidates = candidates[:count]
final_candidates(candidates, count) == Take(SortedSeq(SeqSet(candidates)), count)

GenIdle ==
    /\ gen_pc = "none"
    /\ gen_start = 0
    /\ gen_end = 0
    /\ gen_count = 0
    /\ gen_candidates = [i \in Calls |-> <<>>]
    /\ gen_attempts = [i \in Calls |-> 0]
    /\ gen_max_attempts = [i \in Calls |-> 0]
    /\ gen_result = [i \in Calls |-> <<>>]
    /\ gen_raised = [i \in Calls |-> FALSE]

\* generate_candidates_after_52nd(start, end, count) is called
GenCalled ==
    /\ gen_pc = "call"
    /\ \E w \in GenPairs : gen_start = w[1] /\ gen_end = w[2]
    /\ gen_count \in 0..MaxCount
    /\ gen_candidates = [i \in Calls |-> <<>>]
    /\ gen_attempts = [i \in Calls |-> 0]
    /\ gen_max_attempts = [i \in Calls |-> 0]
    /\ gen_result = [i \in Calls |-> <<>>]
    /\ gen_raised = [i \in Calls |-> FALSE]

\* if effective_start > end: return []
generate_enter ==
    /\ gen_pc = "call"
    /\ gen_pc' = IF effective_start(gen_start) > gen_end THEN "returned" ELSE "strategy1"
    /\ UNCHANGED <<gen_start, gen_end, gen_count, gen_candidates, gen_attempts,
                   gen_max_attempts, gen_result, gen_raised>>
    /\ GenFrame

\* Strategy 1: exponential progression, if weights["exponential"] > 0.5
generate_strategy1 ==
    /\ gen_pc = "strategy1"
    /\ gen_candidates' =
          [i \in Calls |->
              IF exponential_permille > 500
                  THEN exponential_progression(gen_candidates[i],
                           effective_start(gen_start), gen_end, gen_count)
                  ELSE gen_candidates[i]]
    /\ gen_pc' = "strategy2"
    /\ UNCHANGED <<gen_start, gen_end, gen_count, gen_attempts, gen_max_attempts,
                   gen_result, gen_raised>>
    /\ GenFrame

\* Strategy 2: gap-based prediction, if weights["avg_gap"] > 0
generate_strategy2 ==
    /\ gen_pc = "strategy2"
    /\ gen_candidates' =
          [i \in Calls |->
              IF int_avg_gap > 0
                  THEN gap_based_prediction(gen_candidates[i],
                           last_known_exponent + int_avg_gap,
                           effective_start(gen_start), gen_end, gen_count)
                  ELSE gen_candidates[i]]
    /\ gen_pc' = "strategy3"
    /\ UNCHANGED <<gen_start, gen_end, gen_count, gen_attempts, gen_max_attempts,
                   gen_result, gen_raised>>
    /\ GenFrame

\* Strategy 3: modulo patterns; then remaining = count - len(candidates),
\* random.seed(42), attempts = 0, max_attempts = remaining * 10
generate_strategy3 ==
    /\ gen_pc = "strategy3"
    /\ gen_candidates' =
          [i \in Calls |->
              modulo_patterns(gen_candidates[i], common_mods,
                              effective_start(gen_start), gen_end, gen_count)]
    /\ gen_attempts' = [i \in Calls |-> 0]
    /\ gen_max_attempts' =
          [i \in Calls |->
              LET remaining == gen_count - Len(gen_candidates'[i])
              IN  IF remaining > 0 THEN remaining * 10 ELSE 0]
    /\ gen_pc' = "backfill"
    /\ UNCHANGED <<gen_start, gen_end, gen_count, gen_result, gen_raised>>
    /\ GenFrame

\* while len(candidates) < count and attempts < max_attempts
backfill_active(i) ==
    Len(gen_candidates[i]) < gen_count /\ gen_attempts[i] < gen_max_attempts[i]

\* Strategy 4, one pass: candidate = random.randint(effective_start, end).
\* Both calls seed the generator with 42 and draw with the same arguments, so
\* the k-th draw of one call is the k-th draw of the other.
generate_backfill_draw ==
    /\ gen_pc = "backfill"
    /\ \E i \in Calls : backfill_active(i)
    /\ \E r \in effective_start(gen_start)..gen_end :
          gen_candidates' =
              [i \in Calls |->
                  IF backfill_active(i)
                      THEN backfill_step(gen_candidates[i], r, gen_end)
                      ELSE gen_candidates[i]]
    /\ gen_attempts' =
          [i \in Calls |->
              IF backfill_active(i) THEN gen_attempts[i] + 1 ELSE gen_attempts[i]]
    /\ UNCHANGED <<gen_pc, gen_start, gen_end, gen_count, gen_max_attempts,
                   gen_result, gen_raised>>
    /\ GenFrame

\* remove duplicates, sort, truncate, return
generate_return ==
    /\ gen_pc = "backfill"
    /\ \A i \in Calls : ~backfill_active(i)
    /\ gen_result' = [i \in Calls |-> final_candidates(gen_candidates[i], gen_count)]
    /\ gen_pc' = "returned"
    /\ UNCHANGED <<gen_start, gen_end, gen_count, gen_candidates, gen_attempts,
                   gen_max_attempts, gen_raised>>
    /\ GenFrame

GenNext ==
    \/ generate_enter
    \/ generate_strategy1
    \/ generate_strategy2
    \/ generate_strategy3
    \/ generate_backfill_draw
    \/ generate_return

-----------------------------------------------------------------------------
(* AdvancedCandidateGenerator.generate_intelligent_candidates.  The        *)
(* numbers np.random hands out are free in every call; the generator that  *)
(* random.seed(42) restarts hands the same numbers to both calls.          *)
AdvLow      == 9     \* start and end are AdvLow..AdvLow + AdvWidth
AdvWidth    == 3
MaxAdvCount == 10    \* count of generate_intelligent_candidates is 0..MaxAdvCount

AdvPoints == AdvLow..(AdvLow + AdvWidth)
AdvPairs  == AdvPoints \X AdvPoints

\* patterns["growth"]["mean_rate"] = 0.350725..., in millionths
mean_rate_millionths == 350725

\* int(current * growth_rate * (0.8 + 0.4 * np.random.random())): the values
\* it takes as np.random.random() ranges over [0, 1), for current up to 500
exponential_increments(current) ==
    ((current * mean_rate_millionths * 8) \div 10000000)
        .. ((current * mean_rate_millionths * 12) \div 10000000)

RECURSIVE exponential_lists(_, _, _, _)
\* the lists the loop of generate_candidates_exponential can build; a current
\* at or beyond end leaves the loop, whatever its value
exponential_lists(candidates, current, end, count) ==
    IF current < end /\ Len(candidates) < count
    THEN UNION {exponential_lists(Append(candidates, current),
                                  Min({current + Max({1, increment}), end}),
                                  end, count)
                   : increment \in exponential_increments(current)}
    ELSE {candidates}

generate_candidates_exponential(start, end, count) ==
    exponential_lists(<<>>, start, end, count)

RECURSIVE gap_lists(_, _, _, _)
\* gap = int(gap_mean + np.random.normal(0, gap_std * 0.5)) is any integer,
\* so current + max(1, gap) is any number above current
gap_lists(candidates, current, end, count) ==
    IF current < end /\ Len(candidates) < count
    THEN UNION {gap_lists(Append(candidates, current), next, end, count)
                   : next \in (current + 1)..end}
    ELSE {candidates}

generate_candidates_gap_based(start, end, count) ==
    gap_lists(<<>>, start, end, count)

\* max(mod_210.items(), key=lambda x: x[1])[0]: the first residue, in order
\* of insertion, among the most frequent
preferred_mod_210 ==
    CHOOSE m \in mod_patterns_keys : \A o \in mod_patterns_keys \ {m} : mod_before(m, o)

RECURSIVE modulo_list(_, _, _, _)
modulo_list(candidates, current, end, count) ==
    IF current < end /\ Len(candidates) < count
    THEN modulo_list(Append(candidates, current), current + 210, end, count)
    ELSE candidates

generate_candidates_modulo(start, end, count) ==
    modulo_list(<<>>,
                IF start - (start % 210) + preferred_mod_210 < start
                    THEN start - (start % 210) + preferred_mod_210 + 210
                    ELSE start - (start % 210) + preferred_mod_210,
                end, count)

\* np.random.random() < weight, weight = density_map.get(candidate, 0.1) /
\* max_density.  The densest range is 1..999, so the weight is 1 there; it is
\* 0.1 / 0.014 outside the map and below 1 from 1000 up to 999999.
density_accepts(candidate) ==
    IF candidate >= 1000 /\ candidate < 1000000 THEN {TRUE, FALSE} ELSE {TRUE}

RECURSIVE density_lists(_, _, _, _)
\* for candidate in range(start, end)
density_lists(candidates, candidate, end, count) ==
    IF candidate < end
    THEN UNION {density_lists(IF accepted /\ Len(candidates) < count
                                  THEN Append(candidates, candidate)
                                  ELSE candidates,
                              candidate + 1, end, count)
                   : accepted \in density_accepts(candidate)}
    ELSE {candidates}

\* density_map is empty when end <= 1
generate_candidates_density_weighted(start, end, count) ==
    IF end <= 1 THEN {<<>>} ELSE density_lists(<<>>, start, end, count)

RECURSIVE twin_list(_, _, _, _)
\* for candidate in range(start, end), until count candidates are found
twin_list(candidates, candidate, end, count) ==
    IF candidate < end /\ Len(candidates) < count
    THEN twin_list(IF candidate - 2 \in KnownSet \/ candidate + 2 \in KnownSet
                       THEN Append(candidates, candidate)
                       ELSE candidates,
                   candidate + 1, end, count)
    ELSE candidates

generate_candidates_twin_focused(start, end, count) ==
    twin_list(<<>>, start, end, count)

\* int(count * 0.3), int(count * 0.25), int(count * 0.2), int(count * 0.15),
\* int(count * 0.1), for count up to 11
exp_count(count)     == (count * 3) \div 10
gap_count(count)     == count \div 4
mod_count(count)     == count \div 5
density_count(count) == (count * 3) \div 20
twin_count(count)    == count \div 10

\* generate_intelligent_candidates(start, end, count) is called
AdvCalled ==
    /\ gen_pc = "exponential"
    /\ \E w \in AdvPairs : gen_start = w[1] /\ gen_end = w[2]
    /\ gen_count \in 0..MaxAdvCount
    /\ gen_candidates = [i \in Calls |-> <<>>]
    /\ gen_attempts = [i \in Calls |-> 0]
    /\ gen_max_attempts = [i \in Calls |-> 0]
    /\ gen_result = [i \in Calls |-> <<>>]
    /\ gen_raised = [i \in Calls |-> FALSE]

\* all_candidates.extend(exp_candidates)
adv_exponential ==
    /\ gen_pc = "exponential"
    /\ \E lists \in [Calls -> generate_candidates_exponential(
                                  gen_start, gen_end, exp_count(gen_count))] :
          gen_candidates' = [i \in Calls |-> gen_candidates[i] \o lists[i]]
    /\ gen_pc' = "gap_based"
    /\ UNCHANGED <<gen_start, gen_end, gen_count, gen_attempts, gen_max_attempts,
                   gen_result, gen_raised>>
    /\ GenFrame

\* all_candidates.extend(gap_candidates)
adv_gap_based ==
    /\ gen_pc = "gap_based"
    /\ \E lists \in [Calls -> generate_candidates_gap_based(
                                  gen_start, gen_end, gap_count(gen_count))] :
          gen_candidates' = [i \in Calls |-> gen_candidates[i] \o lists[i]]
    /\ gen_pc' = "modulo"
    /\ UNCHANGED <<gen_start, gen_end, gen_count, gen_attempts, gen_max_attempts,
                   gen_result, gen_raised>>
    /\ GenFrame

\* all_candidates.extend(mod_candidates)
adv_modulo ==
    /\ gen_pc = "modulo"
    /\ gen_candidates' =
          [i \in Calls |->
              gen_candidates[i]
                  \o generate_candidates_modulo(gen_start, gen_end, mod_count(gen_count))]
    /\ gen_pc' = "density_weighted"
    /\ UNCHANGED <<gen_start, gen_end, gen_count, gen_attempts, gen_max_attempts,
                   gen_result, gen_raised>>
    /\ GenFrame

\* all_candidates.extend(density_candidates)
adv_density_weighted ==
    /\ gen_pc = "density_weighted"
    /\ \E lists \in [Calls -> generate_candidates_density_weighted(
                                  gen_start, gen_end, density_count(gen_count))] :
          gen_candidates' = [i \in Calls |-> gen_candidates[i] \o lists[i]]
    /\ gen_pc' = "twin_focused"
    /\ UNCHANGED <<gen_start, gen_end, gen_count, gen_attempts, gen_max_attempts,
                   gen_result, gen_raised>>
    /\ GenFrame

\* all_candidates.extend(twin_candidates);
\* unique_candidates = sorted(list(set(all_candidates)));
\* remaining = count - len(unique_candidates); random.seed(42)
adv_twin_focused ==
    /\ gen_pc = "twin_focused"
    /\ gen_candidates' =
          [i \in Calls |->
              SortedSeq(SeqSet(
                  gen_candidates[i]
                      \o generate_candidates_twin_focused(
                             gen_start, gen_end, twin_count(gen_count))))]
    /\ gen_attempts' = [i \in Calls |-> 0]
    /\ gen_max_attempts' =
          [i \in Calls |->
              IF Len(gen_candidates'[i]) < gen_count
                  THEN gen_count - Len(gen_candidates'[i]) ELSE 0]
    /\ gen_pc' = "fill"
    /\ UNCHANGED <<gen_start, gen_end, gen_count, gen_result, gen_raised>>
    /\ GenFrame

\* for _ in range(remaining)
fill_active(i) == gen_attempts[i] < gen_max_attempts[i]

\* one pass of the fill loop with the drawn number r
fill_step(unique_candidates, r) ==
    IF r \notin SeqSet(unique_candidates)
        THEN Append(unique_candidates, r) ELSE unique_candidates

\* candidate = random.randint(start, end): the k-th number drawn after
\* random.seed(42) is the same in both calls
adv_fill_draw ==
    /\ gen_pc = "fill"
    /\ \E i \in Calls : fill_active(i)
    /\ gen_start <= gen_end
    /\ \E r \in gen_start..gen_end :
          gen_candidates' =
              [i \in Calls |->
                  IF fill_active(i)
                      THEN fill_step(gen_candidates[i], r) ELSE gen_candidates[i]]
    /\ gen_attempts' =
          [i \in Calls |->
              IF fill_active(i) THEN gen_attempts[i] + 1 ELSE gen_attempts[i]]
    /\ UNCHANGED <<gen_pc, gen_start, gen_end, gen_count, gen_max_attempts,
                   gen_result, gen_raised>>
    /\ GenFrame

\* random.randint(start, end) raises ValueError on an empty range
adv_fill_raise ==
    /\ gen_pc = "fill"
    /\ \E i \in Calls : fill_active(i)
    /\ gen_start > gen_end
    /\ gen_raised' = [i \in Calls |-> fill_active(i)]
    /\ gen_pc' = "adv_returned"
    /\ UNCHANGED <<gen_start, gen_end, gen_count, gen_candidates, gen_attempts,
                   gen_max_attempts, gen_result>>
    /\ GenFrame

\* unique_candidates = sorted(unique_candidates); return unique_candidates[:count]
adv_final_candidates(unique_candidates, count) ==
    Take(SortedSeq(SeqSet(unique_candidates)), count)

adv_return ==
    /\ gen_pc = "fill"
    /\ \A i \in Calls : ~fill_active(i)
    /\ gen_result' =
          [i \in Calls |-> adv_final_candidates(gen_candidates[i], gen_count)]
    /\ gen_pc' = "adv_returned"
    /\ UNCHANGED <<gen_start, gen_end, gen_count, gen_candidates, gen_attempts,
                   gen_max_attempts, gen_raised>>
    /\ GenFrame

AdvNext ==
    \/ adv_exponential
    \/ adv_gap_based
    \/ adv_modulo
    \/ adv_density_weighted
    \/ adv_twin_focused
    \/ adv_fill_draw
    \/ adv_fill_raise
    \/ adv_return

-----------------------------------------------------------------------------
(* prime95_integration: the results log and parse_mersenne_findings.  The  *)
(* log is a sequence of bytes, one character each; Prime95 appends whole   *)
(* lines to it.                                                            *)
MaxLogLines   == 2     \* lines Prime95 appends
MaxParseCalls == 2     \* calls of parse_mersenne_findings
MaxSince      == 2     \* offsets 0..MaxSince are passed as since_bytes

NoLog == <<"no file">>

\* "M( 7 ) is prime!", "m(13) IS PRIME" and "M(11) is not prime"
LogLines ==
    { <<"M", "(", " ", "7", " ", ")", " ", "i", "s", " ", "p", "r", "i", "m", "e", "!">>,
      <<"m", "(", "1", "3", ")", " ", "I", "S", " ", "P", "R", "I", "M", "E">>,
      <<"M", "(", "1", "1", ")", " ", "i", "s", " ", "n", "o", "t", " ",
        "p", "r", "i", "m", "e">> }

Digits == {"0", "1", "2", "3", "4", "5", "6", "7", "8", "9"}
\* \s
Whitespace == {" ", "\t", "\n"}

\* re.IGNORECASE
fold(c) ==
    CASE c = "M" -> "m"
      [] c = "I" -> "i"
      [] c = "S" -> "s"
      [] c = "P" -> "p"
      [] c = "R" -> "r"
      [] c = "E" -> "e"
      [] OTHER -> c

digit_value(c) ==
    CASE c = "0" -> 0 [] c = "1" -> 1 [] c = "2" -> 2 [] c = "3" -> 3
      [] c = "4" -> 4 [] c = "5" -> 5 [] c = "6" -> 6 [] c = "7" -> 7
      [] c = "8" -> 8 [] c = "9" -> 9

RECURSIVE int(_)
\* int(m.group(1))
int(digits) ==
    IF digits = <<>> THEN 0
    ELSE 10 * int(SubSeq(digits, 1, Len(digits) - 1)) + digit_value(digits[Len(digits)])

RECURSIVE skip(_, _, _)
\* the first position from i on whose character is not in class
skip(ln, i, class) ==
    IF i <= Len(ln) /\ ln[i] \in class THEN skip(ln, i + 1, class) ELSE i

\* word stands in ln at position i, letter case aside
literal(ln, i, word) ==
    /\ i + Len(word) - 1 <= Len(ln)
    /\ \A k \in 1..Len(word) : fold(ln[i + k - 1]) = word[k]

\* where the parts of  M\(\s*(\d+)\s*\)\s+is\s+prime  begin in a match at i
digits_from(ln, i)  == skip(ln, i + 2, Whitespace)
digits_to(ln, i)    == skip(ln, digits_from(ln, i), Digits)
paren_at(ln, i)     == skip(ln, digits_to(ln, i), Whitespace)
is_at(ln, i)        == skip(ln, paren_at(ln, i) + 1, Whitespace)
prime_at(ln, i)     == skip(ln, is_at(ln, i) + 2, Whitespace)

\* pat_prime matches at position i of ln
match_at(ln, i) ==
    /\ literal(ln, i, <<"m", "(">>)
    /\ digits_to(ln, i) > digits_from(ln, i)
    /\ literal(ln, paren_at(ln, i), <<")">>)
    /\ is_at(ln, i) > paren_at(ln, i) + 1
    /\ literal(ln, is_at(ln, i), <<"i", "s">>)
    /\ prime_at(ln, i) > is_at(ln, i) + 2
    /\ literal(ln, prime_at(ln, i), <<"p", "r", "i", "m", "e">>)

\* pat_prime.search(ln): the leftmost match
search(ln) == {i \in 1..Len(ln) : match_at(ln, i)}

group_1(ln) ==
    SubSeq(ln, digits_from(ln, Min(search(ln))), digits_to(ln, Min(search(ln))) - 1)

RECURSIVE extract_confirmed_mersenne_primes(_)
extract_confirmed_mersenne_primes(lines) ==
    IF lines = <<>> THEN <<>>
    ELSE (IF search(Head(lines)) # {} THEN <<int(group_1(Head(lines)))>> ELSE <<>>)
             \o extract_confirmed_mersenne_primes(Tail(lines))

RECURSIVE split_lines(_, _, _)
\* for line in f: lines.append(line.rstrip('\n'))
split_lines(text, line, lines) ==
    IF text = <<>> THEN (IF line = <<>> THEN lines ELSE Append(lines, line))
    ELSE IF Head(text) = "\n" THEN split_lines(Tail(text), <<>>, Append(lines, line))
    ELSE split_lines(Tail(text), Append(line, Head(text)), lines)

read_from_mutant(file, start) == file
\* f.seek(start) when start is not 0; then the file is read to its end
read_from(file, start) == SubSeq(file, start + 1, Len(file))

parse_results(file, since_bytes) ==
    IF file = NoLog
    THEN [lines |-> <<>>, new_offset |-> since_bytes]
    ELSE [lines |-> split_lines(read_from(file, Min({since_bytes, Len(file)})),
                                <<>>, <<>>),
          new_offset |-> Len(file)]

parse_mersenne_findings(file, since_bytes) ==
    LET parsed == parse_results(file, since_bytes)
    IN  [confirmed_exponents |-> extract_confirmed_mersenne_primes(parsed.lines),
         new_offset |-> parsed.new_offset,
         lines |-> parsed.lines]

\* a call that was not made
NoFindings ==
    [since_bytes |-> 0, appended |-> FALSE, confirmed_exponents |-> <<>>,
     new_offset |-> 0]

\* results.txt does not exist and no call was made
ParseIdle ==
    /\ p_file = NoLog
    /\ p_nlines = 0
    /\ p_calls = 0
    /\ p_appended = FALSE
    /\ p_prev = NoFindings
    /\ p_last = NoFindings

\* Prime95 writes a line to results.txt (and creates the file)
prime95_appends ==
    /\ p_nlines < MaxLogLines
    /\ \E ln \in LogLines :
          p_file' = (IF p_file = NoLog THEN <<>> ELSE p_file) \o ln \o <<"\n">>
    /\ p_nlines' = p_nlines + 1
    /\ p_appended' = TRUE
    /\ UNCHANGED <<p_calls, p_prev, p_last>>
    /\ ParseFrame

\* the offsets a caller passes: a small offset, the offset one beyond the end
\* of the log, or the new_offset of the call before
since_choices ==
    (0..MaxSince) \cup {(IF p_file = NoLog THEN 0 ELSE Len(p_file)) + 1}
                 \cup {p_last.new_offset}

\* parse_mersenne_findings(results_path, since_bytes) is called and returns
parse_call ==
    /\ p_calls < MaxParseCalls
    /\ \E since_bytes \in since_choices :
          LET findings == parse_mersenne_findings(p_file, since_bytes)
          IN  p_last' = [since_bytes |-> since_bytes, appended |-> p_appended,
                         confirmed_exponents |-> findings.confirmed_exponents,
                         new_offset |-> findings.new_offset]
    /\ p_prev' = p_last
    /\ p_calls' = p_calls + 1
    /\ p_appended' = FALSE
    /\ UNCHANGED <<p_file, p_nlines>>
    /\ ParseFrame

ParseNext ==
    \/ prime95_appends
    \/ parse_call

-----------------------------------------------------------------------------
(* AdvancedMersennePrimeFinder.test_candidates with use_prime95_ll: every  *)
(* call passes self.state.prime95_results_offset as since_bytes and stores *)
(* the new_offset it gets back.  Prime95 is another process: it appends to *)
(* the log at any moment, also between the statements of parse_results.    *)
MaxChainCalls == 2     \* calls of test_candidates

\* no call was made: prime95_results_offset = 0
ChainIdle ==
    /\ c_pc = "idle"
    /\ c_size = 0
    /\ c_offset = 0
    /\ c_calls = 0
    /\ g_parsed = {}
    /\ g_reparsed = {}
    /\ g_returned = 0

\* Prime95 writes a line while the finder runs
chain_prime95_appends ==
    /\ p_nlines < MaxLogLines
    /\ \E ln \in LogLines :
          p_file' = (IF p_file = NoLog THEN <<>> ELSE p_file) \o ln \o <<"\n">>
    /\ p_nlines' = p_nlines + 1
    /\ UNCHANGED <<p_calls, p_appended, p_prev, p_last>>
    /\ UNCHANGED chain_vars
    /\ ChainFrame

\* parse_results: the file does not exist, {"lines": [], "new_offset": since_bytes}
chain_parse_missing ==
    /\ c_pc = "idle"
    /\ c_calls < MaxChainCalls
    /\ p_file = NoLog
    /\ c_calls' = c_calls + 1
    /\ UNCHANGED <<c_pc, c_size, c_offset, g_parsed, g_reparsed, g_returned>>
    /\ UNCHANGED parse_vars
    /\ ChainFrame

\* parse_results: size = os.path.getsize(results_path)
chain_parse_getsize ==
    /\ c_pc = "idle"
    /\ c_calls < MaxChainCalls
    /\ p_file # NoLog
    /\ c_size' = Len(p_file)
    /\ c_pc' = "reading"
    /\ UNCHANGED <<c_offset, c_calls, g_parsed, g_reparsed, g_returned>>
    /\ UNCHANGED parse_vars
    /\ ChainFrame

\* the bytes a read from start to the end of the file goes through
bytes_read(file, start) == (start + 1)..Len(file)

\* parse_results: start = min(since_bytes, size); seek; read to the end of the
\* file as it is now; return new_offset = size.  test_candidates stores it.
chain_parse_read ==
    /\ c_pc = "reading"
    /\ g_parsed' = g_parsed \cup bytes_read(p_file, Min({c_offset, c_size}))
    /\ g_reparsed' =
          g_reparsed \cup (g_parsed \cap bytes_read(p_file, Min({c_offset, c_size})))
    /\ g_returned' =
          g_returned
              + Len(extract_confirmed_mersenne_primes(
                        split_lines(read_from(p_file, Min({c_offset, c_size})),
                                    <<>>, <<>>)))
    /\ c_offset' = c_size
    /\ c_calls' = c_calls + 1
    /\ c_pc' = "idle"
    /\ UNCHANGED c_size
    /\ UNCHANGED parse_vars
    /\ ChainFrame

ChainNext ==
    \/ chain_prime95_appends
    \/ chain_parse_missing
    \/ chain_parse_getsize
    \/ chain_parse_read

-----------------------------------------------------------------------------
(* EnhancedMersenneDiscovery: test_candidate_with_ll, check_prime95_results *)
(* and the loop of run_sequential_discovery.  A line of results.txt is the  *)
(* sequence of its whitespace-separated parts (line.split()), each part a   *)
(* sequence of characters; the parts are separated by single spaces, as     *)
(* Prime95 writes them.                                                     *)
MaxEnhLines == 2       \* lines Prime95 writes to results.txt
MaxEnhRuns == 1        \* calls of run_sequential_discovery on one engine
results_window == 10   \* lines[-10:]

\* the candidates generate_candidates_after_52nd returns first
EnhCandidates == {FirstValid, SecondValid}
\* the arguments of direct calls of test_candidate_with_ll
EnhDirect == {1, 4, LATEST_KNOWN_EXPONENT, FirstValid, SecondValid}

\* no Discovery (None)
NoDiscovery == [exponent |-> 0, verified_by_prime95 |-> FALSE]

digit_char(d) == CHOOSE c \in Digits : digit_value(c) = d

\* str(p)
RECURSIVE str(_)
str(n) == IF n < 10 THEN <<digit_char(n)>> ELSE str(n \div 10) \o <<digit_char(n % 10)>>

\* "M<p> is prime!", "M<p> is not prime." and "M<p> is a probable prime"
prime_line(p) ==
    << <<"M">> \o str(p), <<"i", "s">>, <<"p", "r", "i", "m", "e", "!">> >>
not_prime_line(p) ==
    << <<"M">> \o str(p), <<"i", "s">>, <<"n", "o", "t">>, <<"p", "r", "i", "m", "e", ".">> >>
probable_line(p) ==
    << <<"M">> \o str(p), <<"i", "s">>, <<"a">>,
       <<"p", "r", "o", "b", "a", "b", "l", "e">>, <<"p", "r", "i", "m", "e">> >>

ResultLines ==
    {prime_line(p) : p \in EnhCandidates}
        \cup {not_prime_line(p) : p \in EnhCandidates}
        \cup {probable_line(p) : p \in EnhCandidates}

\* "M" in line
contains_M(line) == \E k \in 1..Len(line) : \E j \in 1..Len(line[k]) : line[k][j] = "M"

ends_with(part, suffix) ==
    /\ Len(part) >= Len(suffix)
    /\ SubSeq(part, Len(part) - Len(suffix) + 1, Len(part)) = suffix

starts_with(part, prefix) ==
    /\ Len(part) >= Len(prefix)
    /\ SubSeq(part, 1, Len(prefix)) = prefix

\* "is prime" in line
contains_is_prime(line) ==
    \E k \in 1..(Len(line) - 1) :
        /\ ends_with(line[k], <<"i", "s">>)
        /\ starts_with(line[k + 1], <<"p", "r", "i", "m", "e">>)

\* part.startswith('M') and part[1:].isdigit()
names_exponent(part) ==
    /\ Len(part) > 1
    /\ part[1] = "M"
    /\ \A j \in 2..Len(part) : part[j] \in Digits

\* the Discovery the inner loop stops at: the first one with that exponent
\* that is not verified; 0 when there is none
first_pending_mutant(discoveries, exp) ==
    IF \E i \in 1..Len(discoveries) : ~discoveries[i].verified_by_prime95
    THEN Min({i \in 1..Len(discoveries) : ~discoveries[i].verified_by_prime95})
    ELSE 0

first_pending(discoveries, exp) ==
    IF \E i \in 1..Len(discoveries) :
          discoveries[i].exponent = exp /\ ~discoveries[i].verified_by_prime95
    THEN Min({i \in 1..Len(discoveries) :
                 discoveries[i].exponent = exp /\ ~discoveries[i].verified_by_prime95})
    ELSE 0

\* discovery['verified_by_prime95'] = True; break
verify(discoveries, exp) ==
    IF first_pending(discoveries, exp) = 0 THEN discoveries
    ELSE [discoveries EXCEPT ![first_pending(discoveries, exp)].verified_by_prime95 = TRUE]

\* for part in parts
RECURSIVE check_parts(_, _)
check_parts(discoveries, parts) ==
    IF parts = <<>> THEN discoveries
    ELSE check_parts(IF names_exponent(Head(parts))
                     THEN verify(discoveries, int(Tail(Head(parts))))
                     ELSE discoveries,
                     Tail(parts))

\* for line in lines[-10:]
RECURSIVE check_lines(_, _)
check_lines(discoveries, lines) ==
    IF lines = <<>> THEN discoveries
    ELSE check_lines(IF contains_M(Head(lines)) /\ contains_is_prime(Head(lines))
                     THEN check_parts(discoveries, Head(lines))
                     ELSE discoveries,
                     Tail(lines))

last_lines(lines) ==
    SubSeq(lines, IF Len(lines) > results_window THEN Len(lines) - results_window + 1 ELSE 1,
           Len(lines))

\* check_prime95_results; a missing file returns, an exception of open() is caught
check_prime95_results(discoveries, results, readable) ==
    IF results = NoLog \/ ~readable THEN discoveries
    ELSE check_lines(discoveries, last_lines(results))

\* test_candidate_with_ll goes on to lucas_lehmer_test
reaches_lucas_lehmer(candidate) ==
    /\ ~(candidate <= 1 \/ candidate % 2 = 0)
    /\ candidate \notin KnownSet

\* test_candidate_with_ll: lucas_lehmer_test(candidate, timeout=60.0) completes
\* with the verdict of the sequence, or times out and returns False
test_candidate_with_ll(candidate, completes, oracle) ==
    IF reaches_lucas_lehmer(candidate) /\ completes /\ candidate \in oracle
    THEN [exponent |-> candidate, verified_by_prime95 |-> FALSE]
    ELSE NoDiscovery

\* the engine was constructed, nothing was called
EnhIdle ==
    /\ e_pc = "none"
    /\ e_runs = 0
    /\ e_candidates = <<>>
    /\ e_i = 0
    /\ e_tested = 0
    /\ e_discoveries = <<>>
    /\ e_returned = <<>>
    /\ e_results = NoLog
    /\ e_oracle = {}
    /\ e_direct = [candidate |-> 0, result |-> NoDiscovery]
    /\ g_ll_ran = {}
    /\ g_found = {}

\* which of the candidates are exponents of Mersenne primes is not known
EnhConstructed ==
    /\ e_pc = "none"
    /\ e_runs = 0
    /\ e_candidates = <<>>
    /\ e_i = 0
    /\ e_tested = 0
    /\ e_discoveries = <<>>
    /\ e_returned = <<>>
    /\ e_results = NoLog
    /\ e_oracle \in SUBSET EnhCandidates
    /\ e_direct = [candidate |-> 0, result |-> NoDiscovery]
    /\ g_ll_ran = {}
    /\ g_found = {}

\* Prime95 writes a line to results.txt
enh_prime95_appends ==
    /\ Len(IF e_results = NoLog THEN <<>> ELSE e_results) < MaxEnhLines
    /\ \E ln \in ResultLines :
          e_results' = (IF e_results = NoLog THEN <<>> ELSE e_results) \o <<ln>>
    /\ UNCHANGED <<e_pc, e_runs, e_candidates, e_i, e_tested, e_discoveries, e_returned,
                   e_oracle, e_direct, g_ll_ran, g_found>>
    /\ UNCHANGED wt_vars
    /\ EnhFrame

\* a line of results.txt about other work of Prime95
other_line == not_prime_line(LATEST_KNOWN_EXPONENT + 2)

\* During a pass of the loop (it lasts up to the 60 seconds of a test) Prime95,
\* which has written one result so far, writes results_window lines about
\* other work in a row, before the periodic check of that pass.
enh_prime95_appends_others ==
    /\ e_pc = "check"
    /\ e_results # NoLog
    /\ Len(e_results) = 1
    /\ e_results' = e_results \o [k \in 1..results_window |-> other_line]
    /\ UNCHANGED <<e_pc, e_runs, e_candidates, e_i, e_tested, e_discoveries, e_returned,
                   e_oracle, e_direct, g_ll_ran, g_found>>
    /\ UNCHANGED wt_vars
    /\ EnhFrame

\* a caller other than the loop calls test_candidate_with_ll
enh_test_candidate_with_ll ==
    /\ e_pc = "none"
    /\ \E candidate \in EnhDirect, completes \in BOOLEAN :
          /\ e_direct' = [candidate |-> candidate,
                          result |-> test_candidate_with_ll(candidate, completes, e_oracle)]
          /\ g_ll_ran' = IF reaches_lucas_lehmer(candidate)
                         THEN g_ll_ran \cup {candidate} ELSE g_ll_ran
    /\ UNCHANGED <<e_pc, e_runs, e_candidates, e_i, e_tested, e_discoveries, e_returned,
                   e_results, e_oracle, g_found>>
    /\ UNCHANGED wt_vars
    /\ EnhFrame

\* run_sequential_discovery up to the loop; no candidates: return [].
\* test_candidate_with_ll reads nothing but the registry and writes nothing, so
\* direct calls and runs do not affect each other: an engine makes the ones or
\* the others.
run_sequential_discovery ==
    /\ e_pc \in {"none", "returned"}
    /\ e_direct.candidate = 0
    /\ e_runs < MaxEnhRuns
    /\ e_runs' = e_runs + 1
    /\ \E S \in SUBSET EnhCandidates :
          /\ e_candidates' = SortedSeq(S)
          /\ e_pc' = IF S = {} THEN "returned" ELSE "loop"
          /\ e_returned' = <<>>
    /\ e_i' = 0
    /\ UNCHANGED <<e_tested, e_discoveries, e_results, e_oracle, e_direct, g_ll_ran, g_found>>
    /\ UNCHANGED wt_vars
    /\ EnhFrame

\* one pass of the loop up to the periodic check: test the candidate, append
\* and queue a Discovery
enh_iteration ==
    /\ e_pc = "loop"
    /\ e_i < Len(e_candidates)
    /\ e_tested' = e_tested + 1
    /\ e_pc' = IF e_i % 10 = 0 THEN "check" ELSE "loop"
    /\ e_i' = IF e_i % 10 = 0 THEN e_i ELSE e_i + 1
    /\ g_ll_ran' = IF reaches_lucas_lehmer(e_candidates[e_i + 1])
                   THEN g_ll_ran \cup {e_candidates[e_i + 1]} ELSE g_ll_ran
    /\ \E completes \in BOOLEAN, opened \in BOOLEAN :
          IF test_candidate_with_ll(e_candidates[e_i + 1], completes, e_oracle) # NoDiscovery
          THEN /\ e_discoveries' =
                     Append(e_discoveries,
                            test_candidate_with_ll(e_candidates[e_i + 1], completes, e_oracle))
               /\ g_found' = g_found \cup {e_candidates[e_i + 1]}
               /\ queue_write(e_candidates[e_i + 1], "LL", opened)
               /\ UNCHANGED wt_calls
          ELSE /\ opened
               /\ UNCHANGED <<e_discoveries, g_found>>
               /\ UNCHANGED wt_vars
    /\ UNCHANGED <<e_runs, e_candidates, e_returned, e_results, e_oracle, e_direct>>
    /\ EnhFrame

\* if i % 10 == 0: self.check_prime95_results()
enh_periodic_check ==
    /\ e_pc = "check"
    /\ \E readable \in BOOLEAN :
          e_discoveries' = check_prime95_results(e_discoveries, e_results, readable)
    /\ e_pc' = "loop"
    /\ e_i' = e_i + 1
    /\ UNCHANGED <<e_runs, e_candidates, e_tested, e_returned, e_results, e_oracle, e_direct,
                   g_ll_ran, g_found>>
    /\ UNCHANGED wt_vars
    /\ EnhFrame

\* after the loop: the final check_prime95_results, then return self.discoveries
enh_final_check ==
    /\ e_pc = "loop"
    /\ e_i = Len(e_candidates)
    /\ \E readable \in BOOLEAN :
          /\ e_discoveries' = check_prime95_results(e_discoveries, e_results, readable)
          /\ e_returned' = check_prime95_results(e_discoveries, e_results, readable)
    /\ e_pc' = "returned"
    /\ UNCHANGED <<e_runs, e_candidates, e_i, e_tested, e_results, e_oracle, e_direct,
                   g_ll_ran, g_found>>
    /\ UNCHANGED wt_vars
    /\ EnhFrame

\* KeyboardInterrupt in the loop: no final check, return self.discoveries
enh_interrupt ==
    /\ e_pc \in {"loop", "check"}
    /\ e_pc' = "returned"
    /\ e_returned' = e_discoveries
    /\ UNCHANGED <<e_runs, e_candidates, e_i, e_tested, e_discoveries, e_results, e_oracle,
                   e_direct, g_ll_ran, g_found>>
    /\ UNCHANGED wt_vars
    /\ EnhFrame

EnhNext ==
    \/ enh_prime95_appends
    \/ enh_prime95_appends_others
    \/ enh_test_candidate_with_ll
    \/ run_sequential_discovery
    \/ enh_iteration
    \/ enh_periodic_check
    \/ enh_final_check
    \/ enh_interrupt

-----------------------------------------------------------------------------
(* test_candidate_filtering: a caller hands one number after the other to  *)
(* is_valid_mersenne_exponent_candidate of a freshly constructed engine.   *)
(* The numbers are the small ones, the ones on both sides of 2^19 (where   *)
(* bin(p) gets its 20th digit) and the ones around the frontier, which     *)
(* include the even and the odd numbers the test script lists.             *)
FilterLow  == 12    \* the small arguments are 0..FilterLow
FilterSpan == 90    \* the arguments reach FilterSpan above the frontier

FilterInputs ==
    (0..FilterLow) \cup {524285, 524287, 524289, 1048573}
        \cup ((last_known_exponent - 3)..(last_known_exponent + FilterSpan))

FilterIdle ==
    /\ t_pc = "idle"
    /\ t_p = 0
    /\ t_valid = FALSE

FilterCalled ==
    /\ t_pc = "call"
    /\ t_p \in FilterInputs
    /\ t_valid = FALSE

\* is_valid = discovery.is_valid_mersenne_exponent_candidate(candidate)
filter_call ==
    /\ t_pc = "call"
    /\ t_valid' = is_valid_mersenne_exponent_candidate(t_p)
    /\ t_pc' = "returned"
    /\ UNCHANGED t_p
    /\ FilterFrame

\* for candidate in ...: the next number of the list
filter_next ==
    /\ t_pc = "returned"
    /\ t_p' \in FilterInputs
    /\ t_valid' = FALSE
    /\ t_pc' = "call"
    /\ FilterFrame

FilterNext ==
    \/ filter_call
    \/ filter_next

-----------------------------------------------------------------------------
(* app.py: the handlers of /api/start_discovery and /api/stop_discovery,   *)
(* served by concurrent request threads, and the background thread of      *)
(* each run with the worker threads of its engine.                         *)
MaxStarts == 2      \* start requests (and so engines) 1..MaxStarts

Starts == 1..MaxStarts

\* an engine no start request has created yet
NoEngine == [pc |-> "none", running |-> FALSE, testing |-> FALSE]

\* the engines constructed so far
engines_created == {e \in Starts : a_eng[e].pc # "none"}

AppIdle ==
    /\ a_running = FALSE
    /\ a_engine = 0
    /\ a_req = [r \in Starts |-> "idle"]
    /\ a_eng = [e \in Starts |-> NoEngine]

\* start_discovery, up to the validation: 400 when a run is flagged as
\* running or when a parameter is out of range
start_discovery_check(r, valid) ==
    /\ a_req[r] = "idle"
    /\ a_req' = [a_req EXCEPT ![r] = IF a_running \/ ~valid THEN "rejected"
                                     ELSE "accepted"]
    /\ UNCHANGED <<a_running, a_engine, a_eng>>
    /\ AppFrame

\* start_discovery, from  discovery_state["engine"] = RevolutionaryMersenneDiscovery()
\* to  discovery_thread.start()
start_discovery_launch(r) ==
    /\ a_req[r] = "accepted"
    /\ LET e == Cardinality(engines_created) + 1
       IN  /\ a_engine' = e
           /\ a_eng' = [a_eng EXCEPT ![e] = [pc |-> "thread", running |-> FALSE,
                                             testing |-> FALSE]]
    /\ a_running' = TRUE
    /\ a_req' = [a_req EXCEPT ![r] = "started"]
    /\ AppFrame

\* the background thread enters engine.run_discovery: self.running = True,
\* the candidates are enqueued and the worker threads start testing
app_run_discovery_enter(e) ==
    /\ a_eng[e].pc = "thread"
    /\ a_eng' = [a_eng EXCEPT ![e] = [pc |-> "run", running |-> TRUE, testing |-> TRUE]]
    /\ UNCHANGED <<a_running, a_engine, a_req>>
    /\ AppFrame

\* the workers of engine e end their last test: the queue is drained, or the
\* test that was in flight when running became False has ended
app_workers_done(e) ==
    /\ a_eng[e].testing
    /\ a_eng' = [a_eng EXCEPT ![e].testing = FALSE]
    /\ UNCHANGED <<a_running, a_engine, a_req>>
    /\ AppFrame

\* engine.run_discovery returns (empty queue or running False, then the
\* joins with timeout=5, whether or not the workers have ended);
\* finally: discovery_state["running"] = False
app_run_discovery_return(e) ==
    /\ a_eng[e].pc = "run"
    /\ a_eng' = [a_eng EXCEPT ![e].pc = "finished"]
    /\ a_running' = FALSE
    /\ UNCHANGED <<a_engine, a_req>>
    /\ AppFrame

\* stop_discovery: 400 unless discovery_state["running"]; else the flag and
\* the current engine's running are set to False
app_stop_discovery ==
    /\ a_running
    /\ a_running' = FALSE
    /\ a_eng' = IF a_engine = 0 THEN a_eng
                ELSE [a_eng EXCEPT ![a_engine].running = FALSE]
    /\ UNCHANGED <<a_engine, a_req>>
    /\ AppFrame

AppNext ==
    \/ \E r \in Starts, valid \in BOOLEAN : start_discovery_check(r, valid)
    \/ \E r \in Starts : start_discovery_launch(r)
    \/ \E e \in Starts : app_run_discovery_enter(e)
    \/ \E e \in Starts : app_workers_done(e)
    \/ \E e \in Starts : app_run_discovery_return(e)
    \/ app_stop_discovery

-----------------------------------------------------------------------------
(* The specifications: one component runs, the others stay as constructed. *)
LLIdle ==
    /\ ll_variant = "revolutionary"
    /\ ll_p = 2
    /\ ll_timeout = 0
    /\ ll_pc = "idle"
    /\ ll_i = 0
    /\ ll_s = <<>>
    /\ ll_elapsed = 0
    /\ ll_result = [is_prime |-> FALSE, time |-> 0, raised |-> "none"]
    /\ ll_path = "none"
    /\ ll_verdict = "none"

LLInit    == LLCalled /\ DiscIdle /\ FinIdle /\ GenIdle /\ ParseIdle /\ ChainIdle /\ WtIdle /\ EnhIdle /\ FilterIdle /\ AppIdle
DiscInit  == DiscConstructed /\ LLIdle /\ FinIdle /\ GenIdle /\ ParseIdle /\ ChainIdle /\ WtIdle /\ EnhIdle /\ FilterIdle /\ AppIdle
FinInit   == FinNoSession /\ LLIdle /\ DiscIdle /\ GenIdle /\ ParseIdle /\ ChainIdle /\ WtIdle /\ EnhIdle /\ FilterIdle /\ AppIdle
GenInit   == GenCalled /\ LLIdle /\ DiscIdle /\ FinIdle /\ ParseIdle /\ ChainIdle /\ WtIdle /\ EnhIdle /\ FilterIdle /\ AppIdle
AdvInit   == AdvCalled /\ LLIdle /\ DiscIdle /\ FinIdle /\ ParseIdle /\ ChainIdle /\ WtIdle /\ EnhIdle /\ FilterIdle /\ AppIdle
ParseInit == ParseIdle /\ LLIdle /\ DiscIdle /\ FinIdle /\ GenIdle /\ ChainIdle /\ WtIdle /\ EnhIdle /\ FilterIdle /\ AppIdle
ChainInit == ChainIdle /\ ParseIdle /\ LLIdle /\ DiscIdle /\ FinIdle /\ GenIdle /\ WtIdle /\ EnhIdle /\ FilterIdle /\ AppIdle
WtInit    == WtIdle /\ ParseIdle /\ LLIdle /\ DiscIdle /\ FinIdle /\ GenIdle /\ ChainIdle /\ EnhIdle /\ FilterIdle /\ AppIdle
EnhInit   == EnhConstructed /\ WtIdle /\ ParseIdle /\ LLIdle /\ DiscIdle /\ FinIdle /\ GenIdle /\ ChainIdle /\ FilterIdle /\ AppIdle

FilterInit == FilterCalled /\ LLIdle /\ DiscIdle /\ FinIdle /\ GenIdle /\ ParseIdle /\ ChainIdle /\ WtIdle /\ EnhIdle /\ AppIdle

AppInit   == AppIdle /\ FilterIdle /\ LLIdle /\ DiscIdle /\ FinIdle /\ GenIdle /\ ParseIdle /\ ChainIdle /\ WtIdle /\ EnhIdle

SpecLL     == LLInit /\ [][LLNext]_vars
SpecDisc   == DiscInit /\ [][DiscNext]_vars
SpecFinder == FinInit /\ [][FinNext]_vars
SpecGen    == GenInit /\ [][GenNext]_vars
SpecAdv    == AdvInit /\ [][AdvNext]_vars
SpecParse  == ParseInit /\ [][ParseNext]_vars
SpecChain  == ChainInit /\ [][ChainNext]_vars
SpecSubmit == WtInit /\ [][WtNext]_vars
SpecEnh    == EnhInit /\ [][EnhNext]_vars
SpecFilter == FilterInit /\ [][FilterNext]_vars
SpecApp    == AppInit /\ [][AppNext]_vars

\* one step of worker thread w
worker_step(w) ==
    \/ worker_check_running(w)
    \/ worker_get(w)
    \/ worker_test_skipped(w)
    \/ worker_test_begin(w)
    \/ worker_test_completed(w)
    \/ worker_test_timeout(w)
    \/ worker_test_raises(w)
    \/ worker_count_read(w)
    \/ worker_count_write(w)

\* The operating system schedules every started thread again and again: the
\* thread that runs run_discovery and each worker take their next step when
\* one is possible (a test that does not complete ends at its timeout).  The stop signals come from outside and need not come at all.
DiscFairness ==
    /\ WF_vars(run_discovery_start)
    /\ WF_vars(run_discovery_monitor_exit)
    /\ WF_vars(run_discovery_join)
    /\ \A w \in Workers : WF_vars(worker_step(w))

SpecDiscLive == DiscInit /\ [][DiscNext]_vars /\ DiscFairness

-----------------------------------------------------------------------------
(* C1: a Lucas-Lehmer test that runs to completion returns PRIME exactly   *)
(* for the Mersenne exponents: among 2..MaxSmallP and 61, 89, 107, 127     *)
(* these are the registry's entries, so 3, 5, 7, 13, 17, 19, 31, 61, 89,   *)
(* 107, 127 give PRIME and 11, 23, 29 give COMPOSITE.                      *)
C1_CompletedTestDecides ==
    (ll_pc \in {"returned", "reported"} /\ ll_path \in {"p2", "completed"})
        => /\ ll_result.is_prime <=> (ll_p \in KnownSet)
           /\ ll_result.is_prime <=> (ll_p = 2 \/ BigIsZero(ll_s))
           /\ ll_p # 2 => ll_i = ll_p - 2

C1_Witness ==
    /\ ll_pc = "returned" /\ ll_path = "completed"
    /\ ll_variant = "revolutionary" /\ ll_p = 127 /\ ll_result.is_prime

(* C2: on a timeout the outcome is TIMEOUT, never COMPOSITE, and the       *)
(* result handed to the caller differs from every result of a completed    *)
(* run with a non-zero residue.                                            *)
CompositeResults ==
    {[is_prime |-> FALSE, time |-> t, raised |-> "none"] : t \in 0..(MaxBudget + 1)}

C2_TimeoutNeverComposite ==
    (ll_pc = "reported" /\ ll_path = "timeout")
        => (ll_verdict = "TIMEOUT" /\ ll_result \notin CompositeResults)

(* C3: in a run_discovery with N workers (N smaller than the number of     *)
(* candidates, no stop signal) every enqueued candidate is dequeued by     *)
(* exactly one worker and tested exactly once, and the discoveries of the  *)
(* run are those of a single-worker run: the primes among the candidates   *)
(* that were put to the Lucas-Lehmer test (budget and record-building      *)
(* failures aside).                                                        *)
SingleWorkerDiscoveries ==
    {c \in SeqSet(d_enqueued) :
        /\ test_candidate_prescreen(c) = "ll"
        /\ c \in d_oracle
        /\ c \notin (g_timedout \cup g_raised)}

C3_EveryCandidateTestedOnce ==
    /\ \A c \in DiscRange : Cardinality(g_dequeued[c]) <= 1 /\ g_done[c] <= 1
    /\ (m_pc = "returned" /\ ~g_stop /\ d_nworkers < Len(d_enqueued))
          => /\ \A c \in SeqSet(d_enqueued) :
                    Cardinality(g_dequeued[c]) = 1 /\ g_done[c] = 1
             /\ SeqSet(d_discoveries) = SingleWorkerDiscoveries

(* C4: a run_search that resumes from last_exponent_tested = L hands to    *)
(* test_candidates and to integrate_with_prime95 only candidates above     *)
(* max(L, LATEST_KNOWN_EXPONENT), whatever the configured ranges; L is the *)
(* value the state file held when the process loaded it.                   *)
C4_ResumeSafety ==
    /\ \A c \in g_handed_test \cup g_handed_bridge :
          c > g_L /\ c > LATEST_KNOWN_EXPONENT
    /\ g_loaded # -1 => g_L >= g_loaded

C4_Witness ==
    /\ f_pc = "done"
    /\ g_loaded > LATEST_KNOWN_EXPONENT
    /\ g_L = g_loaded
    /\ Len(f_config.search_ranges) > 0
    /\ f_config.search_ranges[1][1] <= g_L
    /\ g_handed_test # {}
    /\ g_handed_bridge # {}

(* C5: last_exponent_tested never decreases: the value a process holds is  *)
(* at least every value a process held before, and the value in            *)
(* partial_search_result.json is at least every value the file held        *)
(* before, across sessions and failed or interrupted saves.                *)
C5_LastExponentNeverDecreases ==
    [][ /\ f_pc' # "off" => f_last' >= g_mem_max
        /\ f_file'.status = "valid" => f_file'.last_exponent_tested >= g_file_max ]_vars

(* C6: every value generate_candidates_after_52nd returns is above the     *)
(* frontier, the largest exponent of the registry, also when start is at   *)
(* or below the frontier; when max(start, frontier + 1) > end the result   *)
(* is the empty list.                                                      *)
C6_ResultsAboveFrontier ==
    gen_pc = "returned" =>
        \A i \in Calls :
            /\ \A k \in 1..Len(gen_result[i]) : gen_result[i][k] > Frontier
            /\ Max({gen_start, Frontier + 1}) > gen_end => gen_result[i] = <<>>

C6_Witness ==
    /\ gen_pc = "returned"
    /\ gen_start <= Frontier
    /\ gen_result[1] # <<>>

(* C7: the list generate_candidates_after_52nd returns has no duplicates,  *)
(* is sorted in ascending order, has at most count elements and holds odd  *)
(* numbers only.                                                           *)
C7_ResultSortedOddBounded ==
    gen_pc = "returned" =>
        \A i \in Calls :
            /\ Len(gen_result[i]) <= gen_count
            /\ \A k \in 1..Len(gen_result[i]) : gen_result[i][k] % 2 = 1
            /\ \A k \in 1..(Len(gen_result[i]) - 1) :
                  gen_result[i][k] < gen_result[i][k + 1]

C7_Witness ==
    /\ gen_pc = "returned"
    /\ Len(gen_result[1]) >= 2
    /\ gen_candidates[1][1] > gen_candidates[1][2]

(* C8: every value a generator returns lies in the half-open range         *)
(* [start, end), the values of the random backfill included.               *)
C8_ResultsInHalfOpenRange ==
    gen_pc = "returned" =>
        \A i \in Calls : \A k \in 1..Len(gen_result[i]) :
            gen_start <= gen_result[i][k] /\ gen_result[i][k] < gen_end

(* C9: two calls of a generator with identical start, end and count return *)
(* identical lists.                                                        *)
C9_IdenticalCallsIdenticalLists ==
    gen_pc \in {"returned", "adv_returned"} => gen_result[1] = gen_result[2]

(* C10: when parse_mersenne_findings is called with since_bytes equal to   *)
(* the new_offset of the call before and the log was not appended to in    *)
(* between, it returns an empty confirmed_exponents list and the same      *)
(* new_offset.                                                             *)
C10_ChainedCallFindsNothing ==
    (p_calls >= 2 /\ p_last.since_bytes = p_prev.new_offset /\ ~p_last.appended)
        => /\ p_last.confirmed_exponents = <<>>
           /\ p_last.new_offset = p_prev.new_offset

C10_Witness ==
    /\ p_calls >= 2
    /\ p_last.since_bytes = p_prev.new_offset
    /\ ~p_last.appended
    /\ p_prev.confirmed_exponents # <<>>

(* C11: over a chain of calls, each passing the offset stored from the     *)
(* call before, while Prime95 appends at any moment (also while a call is  *)
(* reading): the stored offset never decreases, no byte of the log is      *)
(* parsed by two calls, and the calls return no more confirmations than    *)
(* the log has confirming lines.                                           *)
C11_NoByteParsedTwice ==
    /\ [](g_reparsed = {})
    /\ [](p_file # NoLog =>
             g_returned <= Len(extract_confirmed_mersenne_primes(
                                   split_lines(p_file, <<>>, <<>>))))
    /\ [][c_offset' >= c_offset]_vars

\* the exponent an instruction line is for
line_exponent(line) == IF Len(line) = 5 THEN line[4] ELSE line[2]

(* C13: one submit (generate_worktodo_lines, then write_worktodo) appends  *)
(* exactly one line per distinct exponent greater than 1, in ascending     *)
(* order, in the format of the mode: LL Test=p, PRP PRP=p,1, PFACTOR       *)
(* Pfactor=p, any other mode Test=p.                                       *)
C13_OneLinePerDistinctExponent ==
    (g_submit.op \in {"integrate_with_prime95", "fixed_integrate_with_prime95"}
        /\ g_submit.wrote)
    => g_submit.after =
          written(g_submit.before,
                  [k \in 1..Cardinality({x \in SeqSet(g_submit.exponents) : x > 1}) |->
                      worktodo_line(g_submit.mode,
                          SortedSeq({x \in SeqSet(g_submit.exponents) : x > 1})[k])],
                  g_submit.append)

(* C14: after any sequence of submit operations the work file holds at     *)
(* most one instruction line for any exponent.                             *)
C14_WorkFileKeyedByExponent ==
    wt_file # NoWork =>
        \A i, j \in 1..Len(wt_file) :
            line_exponent(wt_file[i]) = line_exponent(wt_file[j]) => i = j

(* C15: whenever a call has appended to a work file that existed, a backup *)
(* copy holding the contents the file had before the append exists.        *)
C15_BackupBeforeAppend ==
    (g_submit.op # "none" /\ g_submit.wrote /\ g_submit.append
        /\ g_submit.before # NoWork)
    => \E b \in wt_backups : b.contents = g_submit.before

\* results.txt holds a line that reports p as prime
reported_prime(p) ==
    /\ e_results # NoLog
    /\ \E k \in 1..Len(e_results) : e_results[k] = prime_line(p)

(* C12: a Discovery is created pending by test_candidate_with_ll; it is    *)
(* confirmed only by check_prime95_results, and only when results.txt      *)
(* holds a line that reports its own exponent as prime; a confirmed        *)
(* Discovery stays confirmed.                                              *)
C12_ConfirmedOnlyByOwnLine ==
    /\ [](/\ ~e_direct.result.verified_by_prime95
          /\ \A i \in 1..Len(e_discoveries) :
                e_discoveries[i].verified_by_prime95
                    => reported_prime(e_discoveries[i].exponent))
    /\ [][/\ Len(e_discoveries') >= Len(e_discoveries)
          /\ \A i \in 1..Len(e_discoveries') :
                IF i > Len(e_discoveries)
                THEN ~e_discoveries'[i].verified_by_prime95
                ELSE /\ e_discoveries'[i].exponent = e_discoveries[i].exponent
                     /\ e_discoveries[i].verified_by_prime95
                            => e_discoveries'[i].verified_by_prime95
                     /\ e_discoveries'[i].verified_by_prime95
                            # e_discoveries[i].verified_by_prime95
                            => \/ e_pc = "check"
                               \/ e_pc = "loop" /\ e_i = Len(e_candidates)]_vars

\* run_sequential_discovery returned one confirmed Discovery and one that is
\* pending although results.txt reports another exponent as prime
C12_Witness ==
    /\ e_pc = "returned"
    /\ Len(e_returned) = 2
    /\ e_returned[1].verified_by_prime95
    /\ ~e_returned[2].verified_by_prime95
    /\ reported_prime(e_returned[1].exponent)

(* C16: no worker is ever inside the Lucas-Lehmer test with an exponent of *)
(* the known registry, and no Discovery is produced for one: test_candidate *)
(* and test_candidate_with_ll return before the test for such a candidate. *)
C16_KnownNeverTested ==
    /\ \A w \in Workers : w_pc[w] = "ll" => w_cand[w] \notin KnownSet
    /\ SeqSet(d_discoveries) \cap KnownSet = {}
    /\ g_ll_ran \cap KnownSet = {}
    /\ e_direct.result.exponent \notin KnownSet
    /\ \A i \in 1..Len(e_discoveries) : e_discoveries[i].exponent \notin KnownSet

\* a worker is back from test_candidate with a known exponent, untested,
\* while another worker is inside the Lucas-Lehmer test
C16_Witness ==
    \E w, v \in Workers :
        /\ w_pc[w] = "count_read"
        /\ w_cand[w] \in KnownSet
        /\ g_done[w_cand[w]] = 1
        /\ w_pc[v] = "ll"

(* C17: a candidate whose test raised inside worker_thread yields no       *)
(* Discovery and is counted as tested: with one worker (no lost update of  *)
(* the counter), whenever the worker is between candidates,                *)
(* candidates_tested equals the number of candidates it has dequeued; and  *)
(* the worker that caught the exception is in its loop, not exited.        *)
C17_RaisedCandidateCounted ==
    /\ g_raised \cap SeqSet(d_discoveries) = {}
    /\ (d_nworkers = 1 /\ w_cand[1] = 0 /\ w_pc[1] \in {"loop", "get", "exited"})
          => d_tested = Cardinality({c \in DiscRange : g_done[c] > 0})

(* C18: after a stop signal (KeyboardInterrupt, or running set to False by *)
(* stop_discovery) run_discovery leaves the joins, reports and returns     *)
(* only when no worker is inside a test any more.                          *)
C18_DrainBeforeReport ==
    [][(m_pc = "join" /\ m_pc' = "returned" /\ g_stop)
          => \A w \in Workers : w_pc[w] # "ll"]_vars

(* C19: test_candidates returns normally (run_search goes on to its next   *)
(* step) only when _save_state has put last_exponent_tested on disk.       *)
C19_SaveFailureIsFatal ==
    [][(f_pc = "test" /\ f_pc' \in {"bridge", "done"})
          => /\ f_file'.status = "valid"
             /\ f_file'.last_exponent_tested = f_last']_vars

\* the exponents of the Discoveries a run returned
returned_exponents == {e_returned[i].exponent : i \in 1..Len(e_returned)}

(* C20: a failure of the Prime95 integration (worktodo.txt cannot be       *)
(* written, results.txt cannot be read) does not keep run_search from      *)
(* returning, and run_sequential_discovery returns every prime its own     *)
(* test found, pending unless results.txt reports it.                      *)
C20_IntegrationFailureHarmless ==
    /\ f_pc # "raised"
    /\ e_pc = "returned" => g_found \subseteq returned_exponents
    /\ \A i \in 1..Len(e_returned) :
          e_returned[i].verified_by_prime95 => reported_prime(e_returned[i].exponent)

-----------------------------------------------------------------------------
(* C21: is_valid_mersenne_exponent_candidate(p) is true exactly when p is  *)
(* odd, above the frontier, p mod 4 is 1 or 3, p mod 6 is 1 or 5 (p > 3),  *)
(* the last decimal digit is 1, 3, 7 or 9 (p > 5) and p passes the         *)
(* Miller-Rabin screen; it is false for every even p.                      *)
admissible(p) ==
    /\ p % 2 = 1
    /\ p > Frontier
    /\ p % 4 \in {1, 3}
    /\ (p > 3 => p % 6 \in {1, 5})
    /\ (p > 5 => p % 10 \in {1, 3, 7, 9})
    /\ is_prime(p)

workers_idle ==
    \A w \in Workers :
        w_cand[w] = 0 /\ w_pc[w] \in {"unstarted", "loop", "get", "exited"}

(* C22: no increment of candidates_tested and no append to discoveries is  *)
(* lost under any interleaving of the workers: whenever all workers are    *)
(* idle (and no test raised), candidates_tested equals the number of       *)
(* candidates processed, and discoveries holds every prime a completed     *)
(* test found.                                                             *)
C22_NoUpdateLost ==
    (workers_idle /\ g_raised = {})
        => /\ d_tested = Cardinality({c \in DiscRange : g_done[c] > 0})
           /\ SeqSet(d_discoveries) =
                 {c \in DiscRange : /\ g_done[c] > 0
                                    /\ test_candidate_prescreen(c) = "ll"
                                    /\ c \in d_oracle
                                    /\ c \notin g_timedout}

\* odd, above the frontier and not in the registry
admissible_exponent(c) ==
    /\ c % 2 = 1
    /\ c > Max(KnownSet)
    /\ c \notin KnownSet

(* C23: every candidate run_discovery puts on the shared queue, and every  *)
(* exponent a worker runs the Lucas-Lehmer test on, is admissible: odd,    *)
(* above the frontier and not in the known registry.                       *)
C23_OnlyAdmissibleEnqueued ==
    /\ \A k \in 1..Len(d_queue) : admissible_exponent(d_queue[k])
    /\ \A w \in Workers : w_pc[w] = "ll" => admissible_exponent(w_cand[w])

(* C24: the Discovery log is append-only: no step (a further candidate     *)
(* test, a verification check, a stop, the return) removes a record that   *)
(* was appended to discoveries or changes one of its fields.               *)
C24_DiscoveriesAppendOnly ==
    [][/\ Len(e_discoveries') >= Len(e_discoveries)
       /\ \A i \in 1..Len(e_discoveries) : e_discoveries'[i] = e_discoveries[i]]_vars

(* C25: after the stop flag is set (self.running = False) a worker that    *)
(* reaches the head of its loop takes no further candidate, so it begins   *)
(* at most the one test it had already committed to; and a Lucas-Lehmer    *)
(* run in flight does not go on to its verdict or to its timeout: it is    *)
(* abandoned at the next checkpoint.                                       *)
C25_StopEndsTesting ==
    [][\A w \in Workers :
          /\ (g_stop /\ w_pc[w] = "loop") => w_pc'[w] # "get"
          /\ (g_stop /\ w_pc[w] = "ll") => w_pc'[w] # "count_read"]_vars

(* C26: when run_discovery has returned without a stop signal, no worker   *)
(* is inside test_candidate or between the test and the count, every       *)
(* enqueued candidate has been tested, and discoveries and                 *)
(* candidates_tested do not change any more.                               *)
C26_ReturnedResultsFinal ==
    /\ [](  (m_pc = "returned" /\ ~g_stop)
              => /\ \A w \in Workers :
                       w_pc[w] \notin {"test", "ll", "count_read", "count_write"}
                 /\ \A c \in SeqSet(d_enqueued) : g_done[c] >= 1)
    /\ [][(m_pc = "returned" /\ ~g_stop)
             => /\ d_discoveries' = d_discoveries
                /\ d_tested' = d_tested]_vars

(* C27: in a run_discovery that received no stop signal, once the queue    *)
(* is drained and run_discovery has returned, every worker thread          *)
(* eventually leaves its loop and terminates (under fair scheduling).      *)
C27_WorkersTerminate ==
    (m_pc = "returned" /\ ~g_stop /\ d_queue = <<>>)
        ~> (\A w \in Workers : w_pc[w] \in {"unstarted", "exited"})

\* max_testable = 5000  # Python LL test limit
max_testable == 5000

(* C28: last_exponent_tested is advanced past an exponent only if the      *)
(* exponent got an internal Lucas-Lehmer verdict (it is at most            *)
(* max_testable) or was handed to the Prime95 work file: after run_search  *)
(* no candidate of the run that is <= last_exponent_tested is neither.     *)
C28_NoCandidateSkipped ==
    f_pc = "done" =>
        \A c \in g_handed_test :
            c <= f_last => (c <= max_testable \/ c \in g_handed_bridge)

\* the engines whose run is in progress: the background thread has been
\* started and has not finished, or worker threads are still testing
runs_active ==
    {e \in Starts : a_eng[e].pc \in {"thread", "run"} \/ a_eng[e].testing}

(* C29: at most one discovery run is active at any time: under every       *)
(* interleaving of start_discovery and stop_discovery requests no start is *)
(* accepted while a run is in progress, and no engine is started while     *)
(* worker threads of an earlier run are still testing.                     *)
C29_AtMostOneRun ==
    /\ [](Cardinality(runs_active) <= 1)
    /\ [][\A r \in Starts :
             (a_req[r] = "idle" /\ a_req'[r] = "accepted") => runs_active = {}]_vars

(* C30: when run_sequential_discovery ends with its final check of a       *)
(* readable results.txt, every Discovery whose exponent results.txt        *)
(* reports as prime is returned with verified_by_prime95 set, however many *)
(* other lines Prime95 wrote after the report.                             *)
C30_ReportedVerifiedAtEnd ==
    [][(/\ e_pc = "loop"
        /\ e_i = Len(e_candidates)
        /\ e_pc' = "returned"
        /\ e_returned' = check_prime95_results(e_discoveries, e_results, TRUE))
          => \A i \in 1..Len(e_returned') :
                reported_prime(e_returned'[i].exponent)
                    => e_returned'[i].verified_by_prime95]_vars

====
